---- MODULE Spec2Model ----
(***************************************************************************)
(* A model of the echocache crate of emporium (src/echocache/src/lib.rs):  *)
(* the single-flight coalescer Request<T> and the TTL cache Cached<T>,     *)
(* and of the code around it.                                              *)
(*                                                                         *)
(* The specifications share the variables and the Request operators:       *)
(*   Spec     one Cached instance used through get / clear / map_cached,   *)
(*            with the clock (Instant::now) advancing;                     *)
(*   FairSpec Spec with the spawned tasks scheduled (weak fairness);       *)
(*   ReqSpec  one Request instance used directly through handle / get;     *)
(*   ReqFairSpec  ReqSpec with the awaiting tasks polled;                  *)
(*   LockSpec the same Cached instance with its two mutexes explicit;      *)
(*   BucketSpec   B2Client::get_bucket over a Cached entry;                *)
(*   RetrySpec    the Backoff retry policy of api-client;                  *)
(*   RegistrySpec the blobs of RegistryStorage on the memory driver;       *)
(*   ShelfSpec    bookshelf's ExpirationPolicy applied day after day.      *)
(*   FaultSpec    Spec with spawned tasks that may die before sending;     *)
(*   PageSpec     a Paginated stream of api-client polled to its end;      *)
(*   AuthSpec     operations of B2Client wrapped by the auth! macro;       *)
(*   UploadSpec   one B2Client::upload_large_file call and its part tasks; *)
(*   DurationSpec one SharedDuration used by several threads.              *)
(* Each specification moves its own variables and keeps the others at      *)
(* rest.                                                                   *)
(*                                                                         *)
(* A fetch is one execution spawned by Request::handle (tokio::spawn at    *)
(* lib.rs:134).  It owns the only strong reference to its broadcast        *)
(* sender, so fetch k and the channel created with it share the index k.   *)
(* The factory of the k-th invocation yields the value k: two executions   *)
(* never produce the same value, so "the same value" can be refuted.       *)
(***************************************************************************)
EXTENDS Integers, Sequences, FiniteSets, Bags, TLC

\* ---------------------------------------------------------------- bounds
\* the threads that share one SharedDuration, and the largest whole seconds
\* and sub-second nanoseconds of the durations they use
NThreads == 2
MaxSecs == 1
MaxNanos == 1
\* the most parts of a large file, the most attempts an upload task is
\* configured with, and the most upload tasks allowed at the same time
MaxParts == 2
MaxUploadRetries == 2
MaxConcurrency == 2
\* the operations wrapped by auth! that run at the same time
NWrapped == 2
\* the pages a paginated service has, and the most items on one page
MaxPages == 3
MaxItems == 2
\* the longest delay and max_delay a Backoff is built with, and the longest
\* Retry-After a server asks for
MaxDelay == 4
\* the largest exponent a Backoff is built with
MaxExponent == 3
\* the longest Duration there is: a product beyond it overflows
DurationMax == 8
\* how many retries of one request are followed
MaxRetries == 4
\* the most days, weeks, months or years an ExpirationPolicy keeps
MaxKeep == 2
\* how many days before the first New Year the applications may start, and
\* how many days after it they end
Before == 2
After == 3
\* the contents of a blob are 0..MaxData
MaxData == 2
\* how many strings of hex digits there are
HexSpace == 7
\* how many calls may await a Handle at the same time
NCallers == 2
\* how many times a factory may be invoked
MaxFetch == 2
\* the last instant of the clock
MaxTime == 2
\* the longest expiration a cache is configured with
MaxDur == 1

\* broadcast::channel::<T>(1)
Capacity == 1

\* the year of the origin: date!(2015 / 12 / 31)
FirstYear == 2015

Fetches == 1..MaxFetch
\* Request 0 is the Request that ReqSpec uses directly; request k > 0 is the
\* Request::default() that Cached::get creates when it starts fetch k.
Requests == 0..MaxFetch

VARIABLES
    config,     \* Cached.expiration and the constructor that built the cache
    now,        \* Instant::now()
    cache,      \* Cached.inner : InnerCache<T>
    inflight,   \* RequestInner.inflight of every Request: 0 is None, k is a
                \* Weak to the sender of fetch k
    fetch,      \* the spawned tasks, with the channel each one owns
    invoked,    \* how many times a caller-supplied factory has been invoked
    handles,    \* the bag of Handles that calling tasks are awaiting
    last,       \* what the latest step returned to its caller, if it
                \* completed a call
    afterClear, \* history: "never" until the first clear(); "clean" from a
                \* clear() to the next get, "landed" once a fetch has stored
                \* its value in between; "used" from that next get on
    epoch       \* history: the fetches started since the cache was last
                \* written or cleared

\* B2Client::get_bucket for one bucket name (src/b2-client/src/bucket.rs)
VARIABLES
    failed,     \* the fetches whose b2_list_buckets yielded Err
    gb          \* the bag of get_bucket calls that have inspected the entry
                \* and have not reached the get: pc is the call's next step,
                \* saw (history) what map_cached found

bucketVars == <<failed, gb>>

\* Backoff, the retry policy of api-client (src/api-client/src/retry.rs)
VARIABLES
    policy,     \* the Backoff that tower's Retry holds for one request: the
                \* self of Policy::retry
    slept       \* history: the delay of every BackoffFuture handed out, and
                \* whether a Retry-After header set it

retryVars == <<policy, slept>>

\* RegistryStorage's blobs in one bucket (src/services/registry/src/storage.rs)
VARIABLES
    blobs,      \* the objects of the bucket under blobs/: what each path holds
    call        \* history: the arguments of the latest call

registryVars == <<blobs, call>>

\* ExpirationPolicy applied to a set of backups
\* (src/bookshelf/src/expiration.rs)
VARIABLES
    policy_config,  \* the ExpirationPolicy
    storage,        \* the epochs that have a backup
    today,          \* the date of the next application, in days since
                    \* January 1st of FirstYear
    epochs,         \* Policy.epochs of the latest application: what was
                    \* inserted
    removed         \* what the latest application returned, removed from
                    \* the storage

shelfVars == <<policy_config, storage, today, epochs, removed>>

\* The two mutexes of echocache and the tasks that take them
VARIABLES
    held,       \* who holds Cached.inner (cache) and RequestInner of every
                \* Request (req): a task, or 0
    task        \* every task's position in the code

lockVars == <<held, task>>

\* A Paginated stream of api-client (src/api-client/src/paginate.rs)
VARIABLES
    book,       \* the service: the page that answers each request
    clonable,   \* the requests whose body can be cloned
    request,    \* Paginated.request
    state,      \* Paginated.state
    issued,     \* history: the requests executed, in order
    yielded,    \* history: what the stream has yielded, in order
    ended,      \* history: a poll has returned the end of the stream
    polled      \* what the last poll_next returned

pageVars == <<book, clonable, request, state, issued, yielded, ended, polled>>

\* Operations of B2Client wrapped by auth! (src/b2-client/src/client.rs)
VARIABLES
    authorization,  \* how many times the client's authorization was replaced
    attempts        \* every wrapped operation under way: its position, the
                    \* results of its attempts and what it returned

authVars == <<authorization, attempts>>

\* One upload_large_file call (src/b2-client/src/upload.rs)
VARIABLES
    upload,     \* the call: its position, the part it is at, its error
    parts,      \* the spawned upload task of every part
    api         \* history: the b2_*_large_file calls made, with their outcome

uploadVars == <<upload, parts, api>>

\* One SharedDuration and its clones (src/api-client/src/timeout.rs)
VARIABLES
    seconds,    \* AtomicDuration.seconds
    nanos,      \* AtomicDuration.nanos
    threads,    \* every thread's position inside get or set
    written     \* history: the initial duration and every duration passed
                \* to set

durationVars == <<seconds, nanos, threads, written>>

\* the variables of the clients
clientVars == <<pageVars, authVars, uploadVars, durationVars>>

\* the variables of everything that is not the echocache crate itself
ext == <<bucketVars, retryVars, registryVars, shelfVars, lockVars, clientVars>>

vars == <<config, now, cache, inflight, fetch, invoked, handles, last, afterClear, epoch,
          failed, gb, policy, slept, blobs, call, policy_config, storage, today, epochs, removed,
          held, task,
          book, clonable, request, state, issued, yielded, ended, polled,
          authorization, attempts, upload, parts, api,
          seconds, nanos, threads, written>>

\* ------------------------------------------------------ Option and Result
Some(x) == [ok |-> TRUE, v |-> x]
None == [ok |-> FALSE, v |-> 0]
Ok(x) == [ok |-> TRUE, v |-> x]
\* Err(RecvError::Closed)
Err == [ok |-> FALSE, v |-> 0]
\* Err(RecvError::Lagged(_))
Lagged == [ok |-> FALSE, v |-> 1]

\* ------------------------------------------------------------- InnerCache
Empty == [tag |-> "Empty", req |-> 0, value |-> 0, expires |-> None]
Inflight(r) == [tag |-> "Inflight", req |-> r, value |-> 0, expires |-> None]
Cached(value, expires) == [tag |-> "Cached", req |-> 0, value |-> value, expires |-> expires]

\* A mutant of new_with_value: no expiration is taken for a zero lifetime.
new_with_value_or_zero(value, expiration) ==
    Cached(value, Some(now + (IF expiration.ok THEN expiration.v ELSE 0)))

\* A mutant of new_with_value: the lifetime is not added.
new_with_value_now(value, expiration) ==
    Cached(value, IF expiration.ok THEN Some(now) ELSE None)

\* InnerCache::new_with_value: expires = expiration.map(|l| Instant::now() + l)
new_with_value(value, expiration) ==
    Cached(value, IF expiration.ok THEN Some(now + expiration.v) ELSE None)

\* A mutant of NotExpired: a value is stale at the instant it expires.
NotExpiredStrict(expires) == IF expires.ok THEN expires.v > now ELSE TRUE

\* The match guard of get and map_cached:
\*   expires.map(|e| e >= Instant::now()).unwrap_or(true)
NotExpired(expires) == IF expires.ok THEN expires.v >= now ELSE TRUE

\* The first match arm of get and map_cached is taken.
IsValid(c) == c.tag = "Cached" /\ NotExpired(c.expires)

\* ------------------------------------------------------------------ tasks
\* A spawned task and its channel.  pc: "running" while the factory's future
\* runs, "publish" once the wrapper of Cached::get has stored the value,
\* "done" once the result is sent and the sender dropped, "dead" when the
\* task ended without sending and dropped the sender.  orphan (history):
\* the call that started the fetch was cancelled before the fetch was done.
NoFetch == [pc |-> "none", req |-> 0, wrapped |-> FALSE, msgs |-> <<>>, orphan |-> FALSE]

\* Handle::new(rx) held by a call of op ("get" of Cached, "handle" of
\* Request): the receiver of channel ch that reads next at position pos.
\* started (history): this call invoked its factory.
NewHandle(op, ch, pos, started) == [op |-> op, ch |-> ch, pos |-> pos, started |-> started]

\* last: op is the call that returned ("get" on the fast path, "recv" when an
\* awaited Handle resolved), ch the fetch its Handle was subscribed to.
Returned(op, ret, ch) == [op |-> op, ret |-> ret, ch |-> ch]
NoReturn == Returned("none", None, 0)

\* A calling task is free to make a call.
Idle == BagCardinality(handles) < NCallers

\* A mutant of SenderAlive: the Arc<Sender> is not moved into the task and is
\* dropped when handle returns, so the Weak never upgrades.
SenderDropped(k) == FALSE

\* The task of fetch k still holds the Arc<Sender>: Weak::upgrade succeeds.
SenderAlive(k) == fetch[k].pc \in {"running", "publish"}

\* A mutant of get_reciever: the Weak is not upgraded, whatever the marker
\* names is subscribed to.
get_reciever_no_upgrade(r) == inflight[r]

\* RequestInner::get_reciever: the channel subscribed to, 0 for None.
get_reciever(r) ==
    IF inflight[r] # 0 /\ SenderAlive(inflight[r]) THEN inflight[r] ELSE 0

\* How many receivers of channel k exist: the handles callers hold.
Receivers(k) ==
    LET on == {h \in BagToSet(handles) : h.ch = k} IN
    BagCardinality([h \in on |-> handles[h]])

\* The fetch records once handle h is dropped.  A channel whose sender and
\* receivers are all gone is freed, and nothing of it is kept.
DropHandle(h) ==
    IF fetch[h.ch].pc \in {"done", "dead"} /\ Receivers(h.ch) = 1
    THEN [fetch EXCEPT ![h.ch].msgs = <<>>, ![h.ch].orphan = FALSE]
    ELSE fetch

\* A mutant of handle: the marker is not set (lib.rs:127 left out).
handle_without_marker(op, r, wrapped) ==
    LET rx == get_reciever(r) IN
    IF rx # 0
    THEN /\ handles' = handles (+) SetToBag({NewHandle(op, rx, Len(fetch[rx].msgs), FALSE)})
         /\ UNCHANGED <<inflight, fetch, invoked, epoch>>
    ELSE /\ invoked < MaxFetch
         /\ LET k == invoked + 1 IN
            /\ invoked' = k
            /\ epoch' = epoch \cup {k}
            /\ inflight' = inflight
            /\ fetch' = [fetch EXCEPT ![k] =
                    [pc |-> "running", req |-> r, wrapped |-> wrapped,
                     msgs |-> <<>>, orphan |-> FALSE]]
            /\ handles' = handles (+) SetToBag({NewHandle(op, k, 0, TRUE)})

\* Request::handle(f) on request r.  wrapped tells whether f is the closure
\* of Cached::get that stores the value (lib.rs:253-265) or the caller's own
\* factory.  It sets inflight, fetch, invoked, handles and epoch.
handle(op, r, wrapped) ==
    LET rx == get_reciever(r) IN
    IF rx # 0
    THEN /\ handles' = handles (+) SetToBag({NewHandle(op, rx, Len(fetch[rx].msgs), FALSE)})
         /\ UNCHANGED <<inflight, fetch, invoked, epoch>>
    ELSE /\ invoked < MaxFetch
         /\ LET k == invoked + 1 IN
            /\ invoked' = k
            /\ epoch' = epoch \cup {k}
            /\ inflight' = [inflight EXCEPT ![r] = k]
            /\ fetch' = [fetch EXCEPT ![k] =
                    [pc |-> "running", req |-> r, wrapped |-> wrapped,
                     msgs |-> <<>>, orphan |-> FALSE]]
            /\ handles' = handles (+) SetToBag({NewHandle(op, k, 0, TRUE)})

\* ----------------------------------------------------------------- Cached
\* Cached::get, first arm (lib.rs:244-248): the value is returned at once.
GetCached ==
    /\ last' = Returned("get", Some(cache.value), 0)
    /\ UNCHANGED <<cache, inflight, fetch, invoked, handles, epoch>>

\* Cached::get, second arm (lib.rs:249): the request in the cache is joined;
\* the caller's factory is handed to Request::handle as it is.
GetInflight ==
    /\ handle("get", cache.req, FALSE)
    /\ last' = NoReturn
    /\ UNCHANGED cache

\* A mutant of GetStart: the stale entry is kept until the fetch completes.
GetStartKeepsStale ==
    /\ invoked < MaxFetch
    /\ handle("get", invoked + 1, TRUE)
    /\ cache' = IF cache.tag = "Cached" THEN cache ELSE Inflight(invoked + 1)
    /\ last' = NoReturn

\* A mutant of GetStart: the state is not set to Inflight (lib.rs:267 left out).
GetStartForgetsInflight ==
    /\ invoked < MaxFetch
    /\ handle("get", invoked + 1, TRUE)
    /\ last' = NoReturn
    /\ UNCHANGED cache

\* Cached::get, third arm (lib.rs:250-269): a new Request runs the wrapped
\* factory and the state becomes Inflight.
GetStart ==
    /\ invoked < MaxFetch
    /\ handle("get", invoked + 1, TRUE)
    /\ cache' = Inflight(invoked + 1)
    /\ last' = NoReturn

\* Cached::get up to the end of its critical section (lib.rs:241-271).
Get ==
    /\ Idle
    /\ afterClear' = IF afterClear = "never" THEN "never" ELSE "used"
    /\ UNCHANGED <<config, now>>
    /\ IF IsValid(cache) THEN GetCached
       ELSE IF cache.tag = "Inflight" THEN GetInflight
       ELSE GetStart

\* A mutant of Clear: a fetch in flight is left in place.
ClearKeepsInflight ==
    /\ cache' = IF cache.tag = "Inflight" THEN cache ELSE Empty
    /\ last' = Returned("clear", None, 0)
    /\ afterClear' = "clean"
    /\ epoch' = IF cache.tag = "Inflight" THEN epoch ELSE {}
    /\ UNCHANGED <<config, now, inflight, fetch, invoked, handles>>

\* Cached::clear
Clear ==
    /\ cache' = Empty
    /\ last' = Returned("clear", None, 0)
    /\ afterClear' = "clean"
    /\ epoch' = {}
    /\ UNCHANGED <<config, now, inflight, fetch, invoked, handles>>

\* A mutant of MapCached: the expiry is not looked at.
MapCachedIgnoresExpiry ==
    /\ last' = Returned("map_cached",
                        IF cache.tag = "Cached" THEN Some(cache.value) ELSE None, 0)
    /\ UNCHANGED <<config, now, cache, inflight, fetch, invoked, handles, afterClear, epoch>>

\* Cached::map_cached(f), with f the identity
MapCached ==
    /\ last' = Returned("map_cached", IF IsValid(cache) THEN Some(cache.value) ELSE None, 0)
    /\ UNCHANGED <<config, now, cache, inflight, fetch, invoked, handles, afterClear, epoch>>

\* A mutant of FetchStore: the value is written only into the Inflight state
\* of the fetch's own request.
FetchStoreIfInflight(k) ==
    /\ fetch[k].pc = "running"
    /\ fetch[k].wrapped
    /\ cache' = IF cache = Inflight(fetch[k].req)
                THEN new_with_value(k, config.expiration) ELSE cache
    /\ fetch' = [fetch EXCEPT ![k].pc = "publish"]
    /\ afterClear' = IF afterClear = "clean" THEN "landed" ELSE afterClear
    /\ epoch' = {}
    /\ last' = NoReturn
    /\ UNCHANGED <<config, now, inflight, invoked, handles>>

\* A mutant of FetchStore: the value of a newer fetch is not overwritten.
FetchStoreKeepsNewer(k) ==
    /\ fetch[k].pc = "running"
    /\ fetch[k].wrapped
    /\ cache' = IF cache.tag = "Cached" /\ cache.value > k
                THEN cache ELSE new_with_value(k, config.expiration)
    /\ fetch' = [fetch EXCEPT ![k].pc = "publish"]
    /\ afterClear' = IF afterClear = "clean" THEN "landed" ELSE afterClear
    /\ epoch' = {}
    /\ last' = NoReturn
    /\ UNCHANGED <<config, now, inflight, invoked, handles>>

\* The wrapping future of Cached::get once the caller's future has yielded
\* its value (lib.rs:258-263): the value is written into the cache.
FetchStore(k) ==
    /\ fetch[k].pc = "running"
    /\ fetch[k].wrapped
    /\ cache' = new_with_value(k, config.expiration)
    /\ fetch' = [fetch EXCEPT ![k].pc = "publish"]
    /\ afterClear' = IF afterClear = "clean" THEN "landed" ELSE afterClear
    /\ epoch' = {}
    /\ last' = NoReturn
    /\ UNCHANGED <<config, now, inflight, invoked, handles>>

\* ---------------------------------------------------------------- Request
\* A mutant of FetchPublish: the result is sent twice.
FetchPublishTwice(k) ==
    /\ \/ fetch[k].pc = "publish"
       \/ fetch[k].pc = "running" /\ ~fetch[k].wrapped
    /\ inflight' = [inflight EXCEPT ![fetch[k].req] = 0]
    /\ fetch' = [fetch EXCEPT ![k].pc = "done",
                              ![k].msgs = IF Receivers(k) = 0 THEN @ ELSE @ \o <<k, k>>,
                              ![k].orphan = @ /\ Receivers(k) # 0]
    /\ epoch' = IF fetch[k].wrapped THEN epoch ELSE {}
    /\ last' = NoReturn
    /\ UNCHANGED <<config, now, cache, invoked, handles, afterClear>>

\* A mutant of FetchPublish: the result is sent before the lock is taken and
\* the marker cleared, so the marker still upgrades after the send.
FetchPublishBeforeClear(k) ==
    /\ \/ fetch[k].pc = "publish"
       \/ fetch[k].pc = "running" /\ ~fetch[k].wrapped
    /\ fetch[k].msgs = <<>>
    /\ fetch' = [fetch EXCEPT ![k].msgs = IF Receivers(k) = 0 THEN @ ELSE Append(@, k)]
    /\ last' = NoReturn
    /\ UNCHANGED <<config, now, cache, inflight, invoked, handles, afterClear, epoch>>

\* The spawned task once its future has yielded res (lib.rs:136-144): under
\* the lock the marker is cleared and res is sent; the task then ends and
\* drops the sender.  broadcast::Sender::send stores nothing when no receiver
\* exists.
FetchPublish(k) ==
    /\ \/ fetch[k].pc = "publish"
       \/ fetch[k].pc = "running" /\ ~fetch[k].wrapped
    /\ inflight' = [inflight EXCEPT ![fetch[k].req] = 0]
    /\ fetch' = [fetch EXCEPT ![k].pc = "done",
                              ![k].msgs = IF Receivers(k) = 0 THEN @ ELSE Append(@, k),
                              ![k].orphan = @ /\ Receivers(k) # 0]
    /\ epoch' = IF fetch[k].wrapped THEN epoch ELSE {}
    /\ last' = NoReturn
    /\ UNCHANGED <<config, now, cache, invoked, handles, afterClear>>

\* The future of fetch k panics, or its task is aborted at the await of
\* lib.rs:135: the task ends there, the sender is dropped and nothing is
\* sent; the marker is left as it is.
FetchDie(k) ==
    /\ fetch[k].pc = "running"
    /\ fetch' = [fetch EXCEPT ![k].pc = "dead", ![k].orphan = @ /\ Receivers(k) # 0]
    /\ last' = NoReturn
    /\ UNCHANGED <<config, now, cache, inflight, invoked, handles, afterClear, epoch>>

\* A mutant of recv: the receiver does not see that the sender is gone.
recv_ignores_close(h) ==
    LET n == Len(fetch[h.ch].msgs) IN
    IF h.pos < n
    THEN IF n - h.pos > Capacity THEN Lagged ELSE Ok(fetch[h.ch].msgs[h.pos + 1])
    ELSE [ok |-> FALSE, v |-> -1]

\* broadcast::Receiver::recv on handle h: Pending while the channel holds
\* nothing for it and the sender lives.
Pending == [ok |-> FALSE, v |-> -1]
recv(h) ==
    LET n == Len(fetch[h.ch].msgs) IN
    IF h.pos < n
    THEN IF n - h.pos > Capacity THEN Lagged ELSE Ok(fetch[h.ch].msgs[h.pos + 1])
    ELSE IF SenderAlive(h.ch) THEN Pending ELSE Err

\* The await of handle h completes.  Cached::get unwraps the result
\* (lib.rs:272) and panics on Err; Request::get returns it.
Recv(h) ==
    /\ BagIn(h, handles)
    /\ recv(h) # Pending
    /\ last' = Returned(IF h.op = "get" /\ ~recv(h).ok THEN "panic" ELSE "recv",
                        recv(h), h.ch)
    /\ handles' = handles (-) SetToBag({h})
    /\ fetch' = DropHandle(h)
    /\ UNCHANGED <<config, now, cache, inflight, invoked, afterClear, epoch>>

\* A mutant of Cancel: the future is polled by the call that started it
\* instead of a spawned task, so cancelling that call ends the fetch.
CancelEndsFetch(h) ==
    /\ BagIn(h, handles)
    /\ handles' = handles (-) SetToBag({h})
    /\ fetch' = IF fetch[h.ch].pc \in {"done", "dead"} THEN DropHandle(h)
                ELSE IF h.started /\ fetch[h.ch].pc = "running"
                THEN [fetch EXCEPT ![h.ch].pc = "dead", ![h.ch].orphan = TRUE]
                ELSE [fetch EXCEPT ![h.ch].orphan = @ \/ h.started]
    /\ last' = Returned("cancel", None, h.ch)
    /\ UNCHANGED <<config, now, cache, inflight, invoked, afterClear, epoch>>

\* The task awaiting handle h is cancelled: the Handle is dropped.  The
\* fetch is a task of its own (tokio::spawn) and is not touched.
Cancel(h) ==
    /\ BagIn(h, handles)
    /\ handles' = handles (-) SetToBag({h})
    /\ fetch' = IF fetch[h.ch].pc \in {"done", "dead"} THEN DropHandle(h)
                ELSE [fetch EXCEPT ![h.ch].orphan = @ \/ h.started]
    /\ last' = Returned("cancel", None, h.ch)
    /\ UNCHANGED <<config, now, cache, inflight, invoked, afterClear, epoch>>

\* Instant::now() advances.
Tick ==
    /\ now < MaxTime
    /\ now' = now + 1
    /\ last' = NoReturn
    /\ UNCHANGED <<config, cache, inflight, fetch, invoked, handles, afterClear, epoch>>

\* Request::handle / Request::get called directly on request 0.
ReqHandle ==
    /\ Idle
    /\ handle("handle", 0, FALSE)
    /\ last' = NoReturn
    /\ UNCHANGED <<config, now, cache, afterClear>>

\* --------------------------------------------------------- specifications
Expirations == {None} \cup {Some(d) : d \in 0..MaxDur}

\* No get_bucket call is under way.
BucketRest ==
    /\ failed = {}
    /\ gb = EmptyBag

\* No request is being retried.
RetryRest ==
    /\ policy = [delay |-> 0, exponent |-> 0, max_delay |-> 0]
    /\ slept = <<>>

\* No registry is in use: the bucket holds nothing.
RegistryRest ==
    /\ blobs = <<>>
    /\ call = <<>>

\* No backups are kept.
ShelfRest ==
    /\ policy_config = [days |-> 0, weeks |-> 0, months |-> 0, years |-> 0]
    /\ storage = {}
    /\ today = 0
    /\ epochs = {}
    /\ removed = {}

\* Locks and tasks are not followed.
LockRest ==
    /\ held = <<>>
    /\ task = <<>>

\* No stream is polled.
PageRest ==
    /\ book = <<>>
    /\ clonable = {}
    /\ request = None
    /\ state = <<>>
    /\ issued = <<>>
    /\ yielded = <<>>
    /\ ended = FALSE
    /\ polled = <<>>

\* No wrapped operation is under way.
AuthRest ==
    /\ authorization = 0
    /\ attempts = <<>>

\* No large file is uploaded.
UploadRest ==
    /\ upload = <<>>
    /\ parts = <<>>
    /\ api = <<>>

\* No duration is shared.
DurationRest ==
    /\ seconds = 0
    /\ nanos = 0
    /\ threads = <<>>
    /\ written = {}

\* No client is in use.
ClientRest ==
    /\ PageRest
    /\ AuthRest
    /\ UploadRest
    /\ DurationRest

\* Nothing but echocache is in use.
ExtInit ==
    /\ BucketRest
    /\ RetryRest
    /\ RegistryRest
    /\ ShelfRest
    /\ LockRest
    /\ ClientRest

InitCommon ==
    /\ now = 0
    /\ inflight = [r \in Requests |-> 0]
    /\ fetch = [k \in Fetches |-> NoFetch]
    /\ invoked = 0
    /\ handles = EmptyBag
    /\ last = NoReturn
    /\ afterClear = "never"
    /\ epoch = {}

\* Cached::new(expiration) or Cached::new_with_value(0, expiration)
Init ==
    /\ InitCommon
    /\ ExtInit
    /\ config \in [ctor : {"new", "new_with_value"}, expiration : Expirations]
    /\ cache = IF config.ctor = "new" THEN Empty
               ELSE new_with_value(0, config.expiration)

AllHandles == BagToSet(handles)

Next ==
    \/ Get /\ UNCHANGED ext
    \/ Clear /\ UNCHANGED ext
    \/ MapCached /\ UNCHANGED ext
    \/ \E k \in Fetches : FetchStore(k) /\ UNCHANGED ext
    \/ \E k \in Fetches : FetchPublish(k) /\ UNCHANGED ext
    \/ \E h \in AllHandles : Recv(h) /\ UNCHANGED ext
    \/ \E h \in AllHandles : Cancel(h) /\ UNCHANGED ext
    \/ Tick /\ UNCHANGED ext

Spec == Init /\ [][Next]_vars

\* The runtime runs every spawned task, and a factory's future that does not
\* panic yields its value.
FairSpec ==
    /\ Spec
    /\ \A k \in Fetches :
         /\ WF_vars(FetchStore(k) /\ UNCHANGED ext)
         /\ WF_vars(FetchPublish(k) /\ UNCHANGED ext)

\* Spec with factories whose future may panic and tasks that may be aborted.
FaultNext ==
    \/ Next
    \/ \E k \in Fetches : FetchDie(k) /\ UNCHANGED ext

FaultSpec == Init /\ [][FaultNext]_vars

\* Request::default()
ReqInit ==
    /\ InitCommon
    /\ ExtInit
    /\ config = [ctor |-> "new", expiration |-> None]
    /\ cache = Empty

ReqNext ==
    \/ ReqHandle /\ UNCHANGED ext
    \/ \E k \in Fetches : FetchPublish(k) /\ UNCHANGED ext
    \/ \E k \in Fetches : FetchDie(k) /\ UNCHANGED ext
    \/ \E h \in AllHandles : Recv(h) /\ UNCHANGED ext
    \/ \E h \in AllHandles : Cancel(h) /\ UNCHANGED ext

ReqSpec == ReqInit /\ [][ReqNext]_vars

\* Every Handle a caller may hold.
HandleSpace == [op : {"get", "handle"}, ch : Fetches, pos : 0..Capacity, started : BOOLEAN]

\* A task that awaits a Handle is woken and polled when the channel has a
\* message for it or is closed.
ReqFairSpec ==
    /\ ReqSpec
    /\ \A h \in HandleSpace : WF_vars(Recv(h) /\ UNCHANGED ext)

TypeOK ==
    /\ now \in 0..MaxTime
    /\ invoked \in 0..MaxFetch
    /\ cache.tag \in {"Empty", "Inflight", "Cached"}
    /\ \A r \in Requests : inflight[r] \in 0..MaxFetch
    /\ \A k \in Fetches : fetch[k].pc \in {"none", "running", "publish", "done", "dead"}
    /\ BagCardinality(handles) <= NCallers

\* ------------------------------------------------------------ get_bucket
\* what a step of get_bucket leaves alone besides echocache's variables
besidesBucket == <<retryVars, registryVars, shelfVars, lockVars, clientVars>>

\* Result::is_err of a cached BucketResult: the value of fetch k is the
\* result of the k-th b2_list_buckets call.
is_err(v) == v \in failed

\* A get_bucket call between two of its steps.
GbCall(pc, saw) == [pc |-> pc, saw |-> saw]

\* A task is free to call get_bucket.
GbIdle == BagCardinality(handles) + BagCardinality(gb) < NCallers

\* get_bucket up to its test (bucket.rs:163-173):
\*   cache.map_cached(Result::is_err).unwrap_or(false)
GbInspect ==
    /\ GbIdle
    /\ MapCached
    /\ LET found == IF IsValid(cache) THEN Some(cache.value) ELSE None IN
       gb' = gb (+) SetToBag({GbCall(IF found.ok /\ is_err(found.v) THEN "clear" ELSE "get",
                                     found)})
    /\ UNCHANGED failed
    /\ UNCHANGED besidesBucket

\* A mutant of GbClear: the entry is left as it is.
GbClearSkipped(c) ==
    /\ BagIn(c, gb)
    /\ c.pc = "clear"
    /\ gb' = (gb (-) SetToBag({c})) (+) SetToBag({GbCall("get", c.saw)})
    /\ last' = Returned("clear", None, 0)
    /\ UNCHANGED <<config, now, cache, inflight, fetch, invoked, handles, afterClear, epoch, failed>>
    /\ UNCHANGED besidesBucket

\* get_bucket, cache.clear() (bucket.rs:174)
GbClear(c) ==
    /\ BagIn(c, gb)
    /\ c.pc = "clear"
    /\ Clear
    /\ gb' = (gb (-) SetToBag({c})) (+) SetToBag({GbCall("get", c.saw)})
    /\ UNCHANGED failed
    /\ UNCHANGED besidesBucket

\* get_bucket, cache.get(..) up to its await (bucket.rs:177-189)
GbGet(c) ==
    /\ BagIn(c, gb)
    /\ c.pc = "get"
    /\ Get
    /\ gb' = gb (-) SetToBag({c})
    /\ UNCHANGED failed
    /\ UNCHANGED besidesBucket

\* b2_list_buckets of fetch k returns res and the wrapper of Cached::get
\* stores it.
GbStore(k, res) ==
    /\ FetchStore(k)
    /\ failed' = IF res = "Err" THEN failed \cup {k} ELSE failed
    /\ UNCHANGED gb
    /\ UNCHANGED besidesBucket

\* B2Client.buckets holds Cached::new(Some(300 s)) for the name.
BucketInit ==
    /\ InitCommon
    /\ ExtInit
    /\ config \in [ctor : {"new"}, expiration : {Some(d) : d \in 0..MaxDur}]
    /\ cache = Empty

BucketNext ==
    \/ GbInspect
    \/ \E c \in BagToSet(gb) : GbClear(c)
    \/ \E c \in BagToSet(gb) : GbGet(c)
    \/ \E k \in Fetches, res \in {"Ok", "Err"} : GbStore(k, res)
    \/ \E k \in Fetches : FetchPublish(k) /\ UNCHANGED ext
    \/ \E h \in AllHandles : Recv(h) /\ UNCHANGED ext
    \/ Tick /\ UNCHANGED ext

BucketSpec == BucketInit /\ [][BucketNext]_vars

\* ----------------------------------------------------------------- Backoff
\* what a step of the retry policy leaves alone
besidesRetry == <<config, now, cache, inflight, fetch, invoked, handles, afterClear, epoch,
                  bucketVars, registryVars, shelfVars, lockVars, clientVars>>

\* Duration::checked_mul: None when the product is no Duration
checked_mul(delay, exponent) ==
    IF delay * exponent > DurationMax THEN None ELSE Some(delay * exponent)

\* Backoff::increment
increment(self) ==
    LET delay == checked_mul(self.delay, self.exponent) IN
    IF ~delay.ok THEN None
    ELSE IF delay.v >= self.max_delay THEN None
    ELSE Some([delay |-> delay.v, exponent |-> self.exponent, max_delay |-> self.max_delay])

\* Backoff::rate_limited
rate_limited(self, delay) ==
    [delay |-> delay, exponent |-> self.exponent, max_delay |-> self.max_delay]

\* What the service answered: a response by the class of its status, or an
\* error.
Results == {"success", "timeout", "server_error", "too_many_requests", "client_error", "error"}

\* BackoffFuture::new(backoff): a sleep of backoff.delay
BackoffFuture(backoff, limited) == [delay |-> backoff.delay, limited |-> limited]

\* <Backoff as Policy>::retry(&mut self, req, result): the future to wait
\* for before the retry, or None to give the result back.  retry_after is
\* the Retry-After header as parsed (None when absent or unreadable).
RetryFuture(self, result, retry_after) ==
    LET backoff == increment(self) IN
    IF ~backoff.ok THEN None
    ELSE IF result \in {"timeout", "server_error", "error"}
         THEN Some(BackoffFuture(backoff.v, FALSE))
    ELSE IF result = "too_many_requests"
         THEN Some(IF retry_after.ok
                   THEN BackoffFuture(rate_limited(self, retry_after.v), TRUE)
                   ELSE BackoffFuture(backoff.v, FALSE))
    ELSE None

\* One round of tower's Retry: the attempt ended with result, the policy is
\* asked, and self is what retry left in place.
Retry(result, retry_after) ==
    /\ Len(slept) < MaxRetries
    /\ ~(last.op = "retry" /\ ~last.ret.ok)
    /\ LET fut == RetryFuture(policy, result, retry_after) IN
       /\ slept' = IF fut.ok THEN Append(slept, fut.v) ELSE slept
       /\ last' = Returned("retry", IF fut.ok THEN Some(fut.v.delay) ELSE None, 0)
    /\ policy' = policy
    /\ UNCHANGED besidesRetry

\* Backoff::new(delay, exponent, max_delay), cloned for one request
RetryInit ==
    /\ InitCommon
    /\ config = [ctor |-> "new", expiration |-> None]
    /\ cache = Empty
    /\ BucketRest
    /\ RegistryRest
    /\ ShelfRest
    /\ LockRest
    /\ ClientRest
    /\ policy \in [delay : 0..MaxDelay, exponent : 0..MaxExponent, max_delay : 0..MaxDelay]
    /\ slept = <<>>

RetryNext ==
    \E result \in Results, retry_after \in {None} \cup {Some(d) : d \in 0..MaxDelay} :
        Retry(result, retry_after)

RetrySpec == RetryInit /\ [][RetryNext]_vars

\* ------------------------------------------------------- RegistryStorage
\* what a step of the registry leaves alone
besidesRegistry == <<config, now, cache, inflight, fetch, invoked, handles, last, afterClear,
                     epoch, bucketVars, retryVars, shelfVars, lockVars, clientVars>>

\* echocache is not in use.
EchoRest ==
    /\ InitCommon
    /\ config = [ctor |-> "new", expiration |-> None]
    /\ cache = Empty

\* The contents a blob may have, and the strings of hex digits there are.
Data == 0..MaxData
Hexes == 0..(HexSpace - 1)

\* hex::encode(Sha256::digest(data)): one string per content, and no two
\* contents of the model share it
Sha256Hex(data) == (5 * data + 3) % HexSpace

\* A digest string, by what splitn(2, ':') makes of it: the part before the
\* first colon (alg, "" when the string has no colon) and the rest.
Digests == [alg : {"", "sha256", "md5"}, hex : Hexes]

\* format!("sha256:{}", hex::encode(Sha256::digest(data)))
computed(data) == [alg |-> "sha256", hex |-> Sha256Hex(data)]

\* The paths under blobs/: blobs/<alg>/<name>
Paths == [alg : {"sha256", "md5"}, name : Hexes]

\* RegistryStorage::blob_path
blob_path(digest) ==
    IF digest.alg # ""
    THEN [alg |-> digest.alg, name |-> digest.hex]
    ELSE [alg |-> "sha256", name |-> digest.hex]

\* RegistryResult of a call: Ok with what it carries, or the error
Reply(tag, data, exists) == [tag |-> tag, data |-> data, exists |-> exists]

Called(op, digest, data, ret) == [op |-> op, digest |-> digest, data |-> data, ret |-> ret]

\* put_blob that uploads whatever it is given
put_blob_unverified(digest, data) ==
    /\ blobs' = [blobs EXCEPT ![blob_path(digest)] = Some(data)]
    /\ call' = Called("put_blob", digest, data, Reply("Ok", 0, FALSE))
    /\ UNCHANGED besidesRegistry

\* RegistryStorage::put_blob, on the memory driver (upload inserts)
put_blob(digest, data) ==
    /\ IF computed(data) # digest
       THEN /\ call' = Called("put_blob", digest, data, Reply("DigestMismatch", 0, FALSE))
            /\ blobs' = blobs
       ELSE /\ blobs' = [blobs EXCEPT ![blob_path(digest)] = Some(data)]
            /\ call' = Called("put_blob", digest, data, Reply("Ok", 0, FALSE))
    /\ UNCHANGED besidesRegistry

\* RegistryStorage::blob_exists: metadata finds the path or reports
\* "path not found"
blob_exists(digest) ==
    /\ call' = Called("blob_exists", digest, 0,
                      Reply("Ok", 0, blobs[blob_path(digest)].ok))
    /\ UNCHANGED blobs
    /\ UNCHANGED besidesRegistry

\* RegistryStorage::get_blob: download copies the object or reports
\* "path not found"
get_blob(digest) ==
    /\ call' = Called("get_blob", digest, 0,
                      IF blobs[blob_path(digest)].ok
                      THEN Reply("Ok", blobs[blob_path(digest)].v, FALSE)
                      ELSE Reply("BlobNotFound", 0, FALSE))
    /\ UNCHANGED blobs
    /\ UNCHANGED besidesRegistry

\* RegistryStorage::delete_blob: the memory driver removes the path and
\* answers Ok whether or not it was there
delete_blob(digest) ==
    /\ blobs' = [blobs EXCEPT ![blob_path(digest)] = None]
    /\ call' = Called("delete_blob", digest, 0, Reply("Ok", 0, FALSE))
    /\ UNCHANGED besidesRegistry

\* RegistryStorage::new over MemoryStorage::with_buckets(&["test"])
RegistryInit ==
    /\ EchoRest
    /\ BucketRest
    /\ RetryRest
    /\ ShelfRest
    /\ LockRest
    /\ ClientRest
    /\ blobs = [p \in Paths |-> None]
    /\ call = Called("none", [alg |-> "", hex |-> 0], 0, Reply("Ok", 0, FALSE))

RegistryNext ==
    \/ \E digest \in Digests, data \in Data : put_blob(digest, data)
    \/ \E digest \in Digests : blob_exists(digest)
    \/ \E digest \in Digests : get_blob(digest)
    \/ \E digest \in Digests : delete_blob(digest)

RegistrySpec == RegistryInit /\ [][RegistryNext]_vars

\* ------------------------------------------------------ ExpirationPolicy
\* what an application of the policy leaves alone
besidesShelf == <<config, now, cache, inflight, fetch, invoked, handles, last, afterClear,
                  epoch, bucketVars, retryVars, registryVars, lockVars,
                  clientVars>>

\* chrono's proleptic Gregorian calendar.  A NaiveDate, and so an Epoch, is
\* the number of days since January 1st of FirstYear.
IsLeap(y) == (y % 4 = 0 /\ y % 100 # 0) \/ y % 400 = 0
DaysInYear(y) == IF IsLeap(y) THEN 366 ELSE 365
DaysInMonth(y, m) ==
    IF m = 2 THEN (IF IsLeap(y) THEN 29 ELSE 28)
    ELSE IF m \in {4, 6, 9, 11} THEN 30 ELSE 31

\* the year and the day of the year (from 0) of the d-th day counted from
\* January 1st of y
RECURSIVE YearAndOrdinal(_, _)
YearAndOrdinal(y, d) ==
    IF d < DaysInYear(y) THEN <<y, d>> ELSE YearAndOrdinal(y + 1, d - DaysInYear(y))

\* the month and the day of the month (from 1) of the d-th day counted from
\* the first of month m of year y
RECURSIVE MonthAndDay(_, _, _)
MonthAndDay(y, m, d) ==
    IF d < DaysInMonth(y, m) THEN <<m, d + 1>>
    ELSE MonthAndDay(y, m + 1, d - DaysInMonth(y, m))

\* Datelike::year, month, day
year(date) == YearAndOrdinal(FirstYear, date)[1]
month(date) == MonthAndDay(year(date), 1, YearAndOrdinal(FirstYear, date)[2])[1]
day(date) == MonthAndDay(year(date), 1, YearAndOrdinal(FirstYear, date)[2])[2]

RECURSIVE DaysBeforeYear(_)
DaysBeforeYear(y) == IF y <= FirstYear THEN 0 ELSE DaysBeforeYear(y - 1) + DaysInYear(y - 1)
RECURSIVE DaysBeforeMonth(_, _)
DaysBeforeMonth(y, m) == IF m <= 1 THEN 0 ELSE DaysBeforeMonth(y, m - 1) + DaysInMonth(y, m - 1)

\* NaiveDate::from_ymd_opt(y, m, d).unwrap()
from_ymd(y, m, d) == DaysBeforeYear(y) + DaysBeforeMonth(y, m) + d - 1

\* NaiveDate::checked_sub_months: the same day n months earlier, or the last
\* day of that month when it has no such day
checked_sub_months(date, n) ==
    LET total == year(date) * 12 + (month(date) - 1) - n
        y == total \div 12
        m == (total % 12) + 1
        d == IF day(date) > DaysInMonth(y, m) THEN DaysInMonth(y, m) ELSE day(date)
    IN from_ymd(y, m, d)

\* weeks_since_year_start: Duration::num_weeks of the time since January 1st
weeks_since_year_start(date) == (date - from_ymd(year(date), 1, 1)) \div 7

\* ExpirationBucket.extract of each bucket: the period of an epoch, a tuple
\* ordered as Rust orders tuples
extract(kind, date) ==
    CASE kind = "daily" -> <<date>>
      [] kind = "weekly" -> <<year(date), weeks_since_year_start(date)>>
      [] kind = "monthly" -> <<year(date), month(date)>>
      [] kind = "yearly" -> <<year(date)>>

\* Ord of D: bucket >= horizon
Ge(a, b) == a[1] > b[1] \/ (a[1] = b[1] /\ (Len(a) = 1 \/ a[2] >= b[2]))

ExpirationBucket(kind, horizon) == [kind |-> kind, horizon |-> horizon, backups |-> <<>>]

\* ExpirationBucket::daily, weekly, monthly, yearly
daily(origin, days) == ExpirationBucket("daily", <<origin - days>>)
weekly(origin, weeks) == ExpirationBucket("weekly", extract("weekly", origin - 7 * weeks))
monthly(origin, months) ==
    LET horizon == checked_sub_months(origin, months) IN
    ExpirationBucket("monthly", <<year(horizon), month(horizon)>>)
yearly(origin, years) == ExpirationBucket("yearly", <<year(origin) - years>>)

\* cmp::min
min(a, b) == IF a <= b THEN a ELSE b

\* an insert that keeps the last epoch it is given for a period
insert_last(self, new) ==
    LET bucket == extract(self.kind, new) IN
    IF Ge(bucket, self.horizon)
    THEN [self EXCEPT !.backups = (bucket :> new) @@ @]
    ELSE self

\* <ExpirationBucket as Bucket>::insert
insert(self, new) ==
    LET bucket == extract(self.kind, new) IN
    IF Ge(bucket, self.horizon)
    THEN [self EXCEPT !.backups =
              IF bucket \in DOMAIN @
              THEN [@ EXCEPT ![bucket] = min(new, @)]
              ELSE (bucket :> new) @@ @]
    ELSE self

\* <ExpirationBucket as Bucket>::values
values(self) == {self.backups[k] : k \in DOMAIN self.backups}

\* ExpirationPolicy::policies
policies(self, origin) ==
    [policies |-> <<daily(origin, self.days), weekly(origin, self.weeks),
                    monthly(origin, self.months), yearly(origin, self.years)>>,
     epochs |-> {}]

\* Policy::insert
policy_insert(self, new) ==
    [policies |-> [i \in DOMAIN self.policies |-> insert(self.policies[i], new)],
     epochs |-> self.epochs \cup {new}]

\* Policy::expired
policy_expired(self) ==
    self.epochs \ UNION {values(self.policies[i]) : i \in DOMAIN self.policies}

\* for epoch in iterator { policy.insert(epoch) }
RECURSIVE InsertAll(_, _)
InsertAll(self, iterator) ==
    IF iterator = <<>> THEN self
    ELSE InsertAll(policy_insert(self, Head(iterator)), Tail(iterator))

\* ExpirationPolicy::expired
expired(self, origin, iterator) == policy_expired(InsertAll(policies(self, origin), iterator))

\* The epochs of a set in the order an iterator yields them: a BTreeSet's
\* ascending order, or the reverse.
RECURSIVE Ascending(_)
Ascending(S) ==
    IF S = {} THEN <<>>
    ELSE LET first == CHOOSE e \in S : \A f \in S : e <= f IN
         <<first>> \o Ascending(S \ {first})
RECURSIVE Descending(_)
Descending(S) ==
    IF S = {} THEN <<>>
    ELSE LET first == CHOOSE e \in S : \A f \in S : e >= f IN
         <<first>> \o Descending(S \ {first})

\* January 1st of the year after FirstYear
NewYear == from_ymd(FirstYear + 1, 1, 1)

\* The backups there may be at the start: the turns of a week, of a month
\* and of the year before the first application.
Candidates ==
    {from_ymd(FirstYear, 11, 22), from_ymd(FirstYear, 12, 1), from_ymd(FirstYear, 12, 2),
     from_ymd(FirstYear, 12, 24), from_ymd(FirstYear, 12, 25), NewYear - Before}

\* One day of the loop of apply_sequentially: today's backup, when one was
\* made, joins the storage; the policy built for today is given the storage;
\* what it reports as expired is removed.
Apply(backup, reverse) ==
    /\ today <= NewYear + After
    /\ LET stored == IF backup THEN storage \cup {today} ELSE storage
           iterator == IF reverse THEN Descending(stored) ELSE Ascending(stored)
           gone == expired(policy_config, today, iterator)
       IN
       /\ epochs' = stored
       /\ removed' = gone
       /\ storage' = stored \ gone
    /\ today' = today + 1
    /\ UNCHANGED policy_config
    /\ UNCHANGED besidesShelf

ShelfInit ==
    /\ EchoRest
    /\ BucketRest
    /\ RetryRest
    /\ RegistryRest
    /\ LockRest
    /\ ClientRest
    /\ policy_config \in [days : 0..MaxKeep, weeks : 0..MaxKeep, months : 0..MaxKeep,
                          years : 0..MaxKeep]
    /\ storage \in SUBSET Candidates
    /\ today = NewYear - Before
    /\ epochs = {}
    /\ removed = {}

ShelfNext == \E backup \in BOOLEAN, reverse \in BOOLEAN : Apply(backup, reverse)

ShelfSpec == ShelfInit /\ [][ShelfNext]_vars

\* ------------------------------------------------------------- the locks
\* Cached::get, clear and map_cached and the spawned tasks, one step per
\* lock taken and per section run under it.
besidesLock == <<bucketVars, retryVars, registryVars, shelfVars, clientVars>>
echoVars == <<config, now, cache, inflight, fetch, invoked, handles, last, afterClear, epoch>>

\* The tasks: the callers of the cache, and the task spawned for fetch k.
Callers == 1..NCallers
Spawned(k) == NCallers + k
Tasks == 1..(NCallers + MaxFetch)

NoHandle == NewHandle("none", 0, 0, FALSE)

\* A task at pc.  op is the method a caller is in; req and wrapped are the
\* Request and the factory that Cached::get hands to Request::handle; h is
\* the Handle it awaits.
At(pc, op, req, wrapped, h) == [pc |-> pc, op |-> op, req |-> req, wrapped |-> wrapped, h |-> h]
Resting == At("idle", "none", 0, FALSE, NoHandle)
Unborn == At("unborn", "none", 0, FALSE, NoHandle)

\* Mutex::lock succeeds at once
Free == 0
Unlocked == [cache |-> Free, req |-> [r \in Requests |-> Free]]

\* A caller enters get, clear or map_cached and comes to the lock() of its
\* first line.
CallOp(c, op) ==
    /\ task[c].pc = "idle"
    /\ task' = [task EXCEPT ![c] = At("lock", op, 0, FALSE, NoHandle)]
    /\ UNCHANGED <<held, echoVars, besidesLock>>

\* self.inner.lock() of Cached::get (lib.rs:242), of clear (213) and of map_cached (221)
CacheLock(c) ==
    /\ task[c].pc = "lock"
    /\ held.cache = Free
    /\ task[c].op = "get" => invoked < MaxFetch \/ IsValid(cache)
    /\ held' = [held EXCEPT !.cache = c]
    /\ task' = [task EXCEPT ![c].pc = IF task[c].op = "get" THEN "match" ELSE task[c].op]
    /\ UNCHANGED <<echoVars, besidesLock>>

\* The match of Cached::get (lib.rs:243-252): the first arm returns the
\* value and the guard is dropped; the others go on to Request::handle.
GetMatch(c) ==
    /\ task[c].pc = "match"
    /\ IF IsValid(cache)
       THEN /\ GetCached
            /\ held' = [held EXCEPT !.cache = Free]
            /\ task' = [task EXCEPT ![c] = Resting]
            /\ UNCHANGED <<config, now, afterClear>>
       ELSE /\ task' = [task EXCEPT ![c] =
                   IF cache.tag = "Inflight"
                   THEN At("handle", "get", cache.req, FALSE, NoHandle)
                   ELSE At("handle", "get", invoked + 1, TRUE, NoHandle)]
            /\ UNCHANGED <<held, echoVars>>
    /\ UNCHANGED besidesLock

\* self.inner.lock() of Request::handle (lib.rs:117)
ReqLock(c) ==
    /\ task[c].pc = "handle"
    /\ held.req[task[c].req] = Free
    /\ held' = [held EXCEPT !.req[task[c].req] = c]
    /\ task' = [task EXCEPT ![c].pc = "subscribe"]
    /\ UNCHANGED <<echoVars, besidesLock>>

\* The Handle that the step has made.
Made == CHOOSE h \in BagToSet(handles') : CopiesIn(h, handles') = CopiesIn(h, handles) + 1

\* The body of Request::handle (lib.rs:118-149): subscribe, or set the
\* marker, call the factory and spawn the task; the guard is dropped when
\* handle returns.
HandleBody(c) ==
    /\ task[c].pc = "subscribe"
    /\ handle("get", task[c].req, task[c].wrapped)
    /\ held' = [held EXCEPT !.req[task[c].req] = Free]
    /\ task' = [t \in Tasks |->
                  IF t = c THEN [task[c] EXCEPT !.pc = "transition", !.h = Made]
                  ELSE IF invoked' # invoked /\ t = Spawned(invoked')
                       THEN At("fut", "none", task[c].req, task[c].wrapped, NoHandle)
                       ELSE task[t]]
    /\ last' = NoReturn
    /\ UNCHANGED <<config, now, cache, afterClear>>
    /\ UNCHANGED besidesLock

\* The end of the block of Cached::get with its guard kept: the guard lives
\* on while the Handle is awaited.
GetTransitionKeepsGuard(c) ==
    /\ task[c].pc = "transition"
    /\ cache' = IF task[c].wrapped THEN Inflight(task[c].req) ELSE cache
    /\ task' = [task EXCEPT ![c].pc = "await"]
    /\ UNCHANGED <<held, config, now, inflight, fetch, invoked, handles, last, afterClear, epoch>>
    /\ UNCHANGED besidesLock

\* The end of the block of Cached::get (lib.rs:267-271): the third arm sets
\* the state to Inflight; the guard is dropped; the Handle is awaited next.
GetTransition(c) ==
    /\ task[c].pc = "transition"
    /\ cache' = IF task[c].wrapped THEN Inflight(task[c].req) ELSE cache
    /\ held' = [held EXCEPT !.cache = Free]
    /\ task' = [task EXCEPT ![c].pc = "await"]
    /\ UNCHANGED <<config, now, inflight, fetch, invoked, handles, last, afterClear, epoch>>
    /\ UNCHANGED besidesLock

\* handle.await of Cached::get (lib.rs:272) completes.
Await(c) ==
    /\ task[c].pc = "await"
    /\ Recv(task[c].h)
    /\ task' = [task EXCEPT ![c] = Resting]
    /\ UNCHANGED <<held, besidesLock>>

\* The body of Cached::clear under the lock
ClearBody(c) ==
    /\ task[c].pc = "clear"
    /\ Clear
    /\ held' = [held EXCEPT !.cache = Free]
    /\ task' = [task EXCEPT ![c] = Resting]
    /\ UNCHANGED besidesLock

\* The body of Cached::map_cached under the lock
MapBody(c) ==
    /\ task[c].pc = "map_cached"
    /\ MapCached
    /\ held' = [held EXCEPT !.cache = Free]
    /\ task' = [task EXCEPT ![c] = Resting]
    /\ UNCHANGED besidesLock

\* The caller's future of fetch k yields its value (fut.await of lib.rs:258
\* in the wrapper, of lib.rs:135 for a bare factory).
FutYields(k) ==
    /\ task[Spawned(k)].pc = "fut"
    /\ task' = [task EXCEPT ![Spawned(k)].pc =
                   IF fetch[k].wrapped THEN "lock_cache" ELSE "lock_req"]
    /\ UNCHANGED <<held, echoVars, besidesLock>>

\* inner.lock() of the wrapper (lib.rs:260)
StoreLock(k) ==
    /\ task[Spawned(k)].pc = "lock_cache"
    /\ held.cache = Free
    /\ held' = [held EXCEPT !.cache = Spawned(k)]
    /\ task' = [task EXCEPT ![Spawned(k)].pc = "store"]
    /\ UNCHANGED <<echoVars, besidesLock>>

\* A store whose guard is kept while the task goes on to the coalescer lock.
StoreBodyKeepsGuard(k) ==
    /\ task[Spawned(k)].pc = "store"
    /\ FetchStore(k)
    /\ task' = [task EXCEPT ![Spawned(k)].pc = "lock_req"]
    /\ UNCHANGED held
    /\ UNCHANGED besidesLock

\* A store that leaves the cache state as it finds it.
StoreBodyForgets(k) ==
    /\ task[Spawned(k)].pc = "store"
    /\ fetch[k].pc = "running"
    /\ fetch' = [fetch EXCEPT ![k].pc = "publish"]
    /\ held' = [held EXCEPT !.cache = Free]
    /\ task' = [task EXCEPT ![Spawned(k)].pc = "lock_req"]
    /\ last' = NoReturn
    /\ UNCHANGED <<config, now, cache, inflight, invoked, handles, afterClear, epoch>>
    /\ UNCHANGED besidesLock

\* The store of the wrapper (lib.rs:261-262); the guard is dropped.
StoreBody(k) ==
    /\ task[Spawned(k)].pc = "store"
    /\ FetchStore(k)
    /\ held' = [held EXCEPT !.cache = Free]
    /\ task' = [task EXCEPT ![Spawned(k)].pc = "lock_req"]
    /\ UNCHANGED besidesLock

\* inner.lock() of the spawned task (lib.rs:140)
SendLock(k) ==
    /\ task[Spawned(k)].pc = "lock_req"
    /\ held.req[fetch[k].req] = Free
    /\ held' = [held EXCEPT !.req[fetch[k].req] = Spawned(k)]
    /\ task' = [task EXCEPT ![Spawned(k)].pc = "send"]
    /\ UNCHANGED <<echoVars, besidesLock>>

\* The marker is cleared and the result sent (lib.rs:141-143); the guard is
\* dropped and the task ends.
SendBody(k) ==
    /\ task[Spawned(k)].pc = "send"
    /\ FetchPublish(k)
    /\ held' = [held EXCEPT !.req[fetch[k].req] = Free]
    /\ task' = [task EXCEPT ![Spawned(k)].pc = "end"]
    /\ UNCHANGED besidesLock

\* Cached::new(None), shared by the callers
LockInit ==
    /\ EchoRest
    /\ BucketRest
    /\ RetryRest
    /\ RegistryRest
    /\ ShelfRest
    /\ ClientRest
    /\ held = Unlocked
    /\ task = [t \in Tasks |-> IF t \in Callers THEN Resting ELSE Unborn]

\* What a caller may do next.
CallerStep(c) ==
    \/ \E op \in {"get", "clear", "map_cached"} : CallOp(c, op)
    \/ CacheLock(c)
    \/ GetMatch(c)
    \/ ReqLock(c)
    \/ HandleBody(c)
    \/ GetTransition(c)
    \/ Await(c)
    \/ ClearBody(c)
    \/ MapBody(c)

\* What the task spawned for fetch k may do next.
SpawnedStep(k) ==
    \/ FutYields(k)
    \/ StoreLock(k)
    \/ StoreBody(k)
    \/ SendLock(k)
    \/ SendBody(k)

LockNext ==
    \/ \E c \in Callers : CallerStep(c)
    \/ \E k \in Fetches : SpawnedStep(k)

LockSpec == LockInit /\ [][LockNext]_vars

\* -------------------------------------------------------------- Paginated
\* src/api-client/src/paginate.rs.  A request is named by the page that
\* answers it; the stream is created with the request for page 1.  The
\* service is a book: for every page, how many items it holds and which
\* request the paginator's next() gives for it.  Item i of page p is the
\* number p * Stride + i, so no two items are equal.  A request is issued
\* when its future is first polled (client.execute, paginate.rs:180).

besidesPage == <<echoVars, bucketVars, retryVars, registryVars, shelfVars, lockVars,
                 authVars, uploadVars, durationVars>>

PageIds == 1 .. MaxPages
Stride == MaxItems + 1

\* Paginator::items of the page that answers request p
items(p) == [i \in 1 .. book[p].size |-> p * Stride + i]

\* PaginationInfo::next for the page that answers request p
next(p) == book[p].next

\* the services: next() leads forward, so that every stream is finite
Books ==
    {b \in [PageIds -> [size : 0 .. MaxItems,
                        next : {None} \cup {Some(q) : q \in PageIds}]] :
        \A p \in PageIds : b[p].next.ok => b[p].next.v > p}

\* PaginatedStreamState
Query == [tag |-> "Query", items |-> <<>>, req |-> 0, started |-> FALSE]
Buffered(its) == [tag |-> "Buffered", items |-> its, req |-> 0, started |-> FALSE]
Requesting(r, started) == [tag |-> "Requesting", items |-> <<>>, req |-> r, started |-> started]
Done == [tag |-> "Done", items |-> <<>>, req |-> 0, started |-> FALSE]

\* Poll<Option<Result<T, BoxError>>>; v is the item, or the kind of error
PollPending == [tag |-> "PollPending", v |-> 0]
ReadyNone == [tag |-> "Ready(None)", v |-> 0]
ReadyOk(item) == [tag |-> "Ready(Some(Ok))", v |-> item]
ReadyErr(kind) == [tag |-> "Ready(Some(Err))", v |-> kind]

\* the errors of the future of a page: client.execute failed, or the status
\* of the response was not a success
Transport == 1
Status == 2

\* what the future of a page yields when it is polled
Outcomes == {"pending", "ok", "transport", "status"}

\* poll_next in state Query: the stream ends when there is no request or its
\* body cannot be cloned, otherwise the future of the next page is built
PollQuery ==
    /\ state.tag = "Query"
    /\ IF ~request.ok \/ request.v \notin clonable
       THEN /\ state' = Done
            /\ polled' = ReadyNone
            /\ ended' = TRUE
       ELSE /\ state' = Requesting(request.v, FALSE)
            /\ polled' = PollPending
            /\ ended' = ended
    /\ UNCHANGED <<book, clonable, request, issued, yielded>>

\* poll_next in state Buffered: the front item is yielded; an empty buffer
\* leads back to Query
PollBuffered ==
    /\ state.tag = "Buffered"
    /\ IF state.items # <<>>
       THEN /\ state' = Buffered(Tail(state.items))
            /\ polled' = ReadyOk(Head(state.items))
            /\ yielded' = Append(yielded, Ok(Head(state.items)))
       ELSE /\ state' = Query
            /\ polled' = PollPending
            /\ yielded' = yielded
    /\ UNCHANGED <<book, clonable, request, issued, ended>>

\* A mutant of PollRequesting: the request is not replaced by next().
PollRequestingKeepsRequest(outcome) ==
    /\ state.tag = "Requesting"
    /\ issued' = IF state.started THEN issued ELSE Append(issued, state.req)
    /\ CASE outcome = "pending" ->
              /\ state' = Requesting(state.req, TRUE)
              /\ polled' = PollPending
              /\ UNCHANGED <<request, yielded, ended>>
         [] outcome = "ok" ->
              /\ state' = Buffered(items(state.req))
              /\ polled' = PollPending
              /\ UNCHANGED <<request, yielded, ended>>
         [] OTHER ->
              /\ state' = Done
              /\ polled' = ReadyErr(IF outcome = "transport" THEN Transport ELSE Status)
              /\ yielded' = Append(yielded, Lagged)
              /\ ended' = TRUE
              /\ UNCHANGED request
    /\ UNCHANGED <<book, clonable>>

\* poll_next in state Requesting: the future is polled.  A page fills the
\* buffer and next() replaces the request; an error ends the stream.  (The
\* future never yields Ok(None), the arm at paginate.rs:224 is never taken.)
PollRequesting(outcome) ==
    /\ state.tag = "Requesting"
    /\ issued' = IF state.started THEN issued ELSE Append(issued, state.req)
    /\ CASE outcome = "pending" ->
              /\ state' = Requesting(state.req, TRUE)
              /\ polled' = PollPending
              /\ UNCHANGED <<request, yielded, ended>>
         [] outcome = "ok" ->
              /\ state' = Buffered(items(state.req))
              /\ request' = IF request.ok THEN next(state.req) ELSE request
              /\ polled' = PollPending
              /\ UNCHANGED <<yielded, ended>>
         [] OTHER ->
              /\ state' = Done
              /\ polled' = ReadyErr(IF outcome = "transport" THEN Transport ELSE Status)
              /\ yielded' = Append(yielded, Lagged)
              /\ ended' = TRUE
              /\ UNCHANGED request
    /\ UNCHANGED <<book, clonable>>

\* A mutant of PollDone: a stream that still holds a request starts over.
PollDoneRestarts ==
    /\ state.tag = "Done"
    /\ state' = IF request.ok THEN Query ELSE Done
    /\ polled' = ReadyNone
    /\ ended' = TRUE
    /\ UNCHANGED <<book, clonable, request, issued, yielded>>

\* poll_next in state Done
PollDone ==
    /\ state.tag = "Done"
    /\ polled' = ReadyNone
    /\ ended' = TRUE
    /\ UNCHANGED <<book, clonable, request, state, issued, yielded>>

\* <Paginated as Stream>::poll_next
poll_next ==
    \/ PollQuery
    \/ PollBuffered
    \/ \E outcome \in Outcomes : PollRequesting(outcome)
    \/ PollDone

\* Paginated::new over any service
PageInit ==
    /\ EchoRest
    /\ BucketRest
    /\ RetryRest
    /\ RegistryRest
    /\ ShelfRest
    /\ LockRest
    /\ AuthRest
    /\ UploadRest
    /\ DurationRest
    /\ book \in Books
    /\ clonable \in SUBSET PageIds
    /\ request = Some(1)
    /\ state = Query
    /\ issued = <<>>
    /\ yielded = <<>>
    /\ ended = FALSE
    /\ polled = PollPending

PageNext ==
    \/ PollQuery /\ UNCHANGED besidesPage
    \/ PollBuffered /\ UNCHANGED besidesPage
    \/ \E outcome \in Outcomes : PollRequesting(outcome) /\ UNCHANGED besidesPage
    \/ PollDone /\ UNCHANGED besidesPage

PageSpec == PageInit /\ [][PageNext]_vars

\* ------------------------------------------------------------------ auth!
\* src/b2-client/src/client.rs:102-121.  Every wrapped operation runs the
\* method, may refresh the authorization of the client, and may run the
\* method again.  The results of the method are inputs; a result carries the
\* attempt that produced it, so that the results of two attempts differ.

besidesAuth == <<echoVars, bucketVars, retryVars, registryVars, shelfVars, lockVars,
                 pageVars, uploadVars, durationVars>>

WrappedOps == 1 .. NWrapped

\* what the method returns: Ok, an Err that is a B2 error of kind
\* ExpiredAuthToken or of another kind, or an Err that is no B2 error
ResultKinds == {"Ok", "ExpiredAuthToken", "OtherB2", "NotB2"}
MethodResult(kind, attempt) == [kind |-> kind, attempt |-> attempt]
NoResult == MethodResult("", 0)

\* err.b2() is Some and its kind is ExpiredAuthToken (client.rs:105-107)
IsExpired(result) == result.kind = "ExpiredAuthToken"

\* the operation at one position with its local `result`, the results of its
\* attempts and the outcomes of its refreshes
AuthAt(pc, result, tried, refreshed) ==
    [pc |-> pc, result |-> result, tried |-> tried, refreshed |-> refreshed]

\* $driver.$method(...).await, first at client.rs:104 and again at
\* client.rs:112; after the first attempt the error is inspected
method(o, kind) ==
    LET a == attempts[o]
        res == MethodResult(kind, Len(a.tried) + 1)
    IN  /\ a.pc \in {"first", "second"}
        /\ attempts' = [attempts EXCEPT ![o] =
              AuthAt(IF a.pc = "first" /\ IsExpired(res) THEN "refresh" ELSE "done",
                     res, Append(a.tried, res), a.refreshed)]
        /\ UNCHANGED authorization

\* A mutant of refresh_authorization: the method is run again after a failed
\* refresh as well.
refresh_authorization_lenient(o, ok) ==
    LET a == attempts[o]
    IN  /\ a.pc = "refresh"
        /\ authorization' = IF ok THEN authorization + 1 ELSE authorization
        /\ attempts' = [attempts EXCEPT ![o] =
              AuthAt("second", a.result, a.tried, Append(a.refreshed, ok))]

\* $driver.refresh_authorization().await (client.rs:108): on success the
\* authorization of the client is replaced (client.rs:93-96) and the method
\* is run again, on failure `result` is returned
refresh_authorization(o, ok) ==
    LET a == attempts[o]
    IN  /\ a.pc = "refresh"
        /\ authorization' = IF ok THEN authorization + 1 ELSE authorization
        /\ attempts' = [attempts EXCEPT ![o] =
              AuthAt(IF ok THEN "second" ELSE "done", a.result, a.tried,
                     Append(a.refreshed, ok))]

AuthInit ==
    /\ EchoRest
    /\ BucketRest
    /\ RetryRest
    /\ RegistryRest
    /\ ShelfRest
    /\ LockRest
    /\ PageRest
    /\ UploadRest
    /\ DurationRest
    /\ authorization = 0
    /\ attempts = [o \in WrappedOps |-> AuthAt("first", NoResult, <<>>, <<>>)]

AuthNext ==
    \/ \E o \in WrappedOps, kind \in ResultKinds : method(o, kind) /\ UNCHANGED besidesAuth
    \/ \E o \in WrappedOps, ok \in BOOLEAN :
          refresh_authorization(o, ok) /\ UNCHANGED besidesAuth

AuthSpec == AuthInit /\ [][AuthNext]_vars

\* ------------------------------------------------------ upload_large_file
\* src/b2-client/src/upload.rs.  One call of upload_large_file: the caller
\* walks through upload_large_file, upload_multipart_inner and
\* upload_part_inner, and every part that holds data gets a spawned task
\* (tokio::spawn, upload.rs:333).  The outcome of every read and of every B2
\* call is an input.  An error is named by where it arose and for which part.

besidesUpload == <<echoVars, bucketVars, retryVars, registryVars, shelfVars, lockVars,
                   pageVars, authVars, durationVars>>

Parts == 1 .. MaxParts

UploadError(kind, part) == [kind |-> kind, part |-> part]
NoError == UploadError("", 0)

\* what upload_large_file has returned
Running == [tag |-> "", error |-> NoError]
ReturnedOk == [tag |-> "Ok", error |-> NoError]
ReturnedErr(error) == [tag |-> "Err", error |-> error]

\* a spawned upload task: where it is, the attempt of its loop, its error
PartAt(pc, attempt, error) == [pc |-> pc, attempt |-> attempt, error |-> error]
Unspawned == PartAt("unspawned", 0, NoError)

\* a call of one of the b2_*_large_file methods and whether it succeeded
ApiCall(name, ok) == [name |-> name, ok |-> ok]

\* the permits of the semaphore that spawned tasks hold (upload.rs:308, 369)
PermitsHeld ==
    Cardinality({p \in Parts : parts[p].pc \in {"digest", "upload", "reurl"}})
    + (IF upload.permit THEN 1 ELSE 0)

\* the for loop of upload_multipart_inner moves to the next part, or ends and
\* the semaphore is closed (upload.rs:392, 405)
NextPart ==
    IF upload.part = upload.nparts
    THEN [upload EXCEPT !.pc = "join", !.permit = FALSE]
    ELSE [upload EXCEPT !.pc = "acquire", !.part = @ + 1, !.permit = FALSE]

\* upload_multipart_inner returns Err(error) to upload_large_file
\* (upload.rs:395, 408, 414, 580)
Fails(error) == [upload EXCEPT !.pc = "cancel", !.error = error, !.permit = FALSE]

\* b2_start_large_file (upload.rs:560-562)
b2_start_large_file(ok) ==
    /\ upload.pc = "start"
    /\ api' = Append(api, ApiCall("b2_start_large_file", ok))
    /\ upload' = IF ok
                 THEN [upload EXCEPT !.pc = "acquire", !.part = 1]
                 ELSE [upload EXCEPT !.pc = "done",
                                     !.returned = ReturnedErr(UploadError("start", 0))]
    /\ UNCHANGED parts

\* semaphore.acquire_owned (upload.rs:308)
acquire_owned ==
    /\ upload.pc = "acquire"
    /\ PermitsHeld < upload.concurrency
    /\ upload' = [upload EXCEPT !.pc = "read", !.permit = TRUE]
    /\ UNCHANGED <<parts, api>>

\* the chunk of the part is read (upload.rs:311-325): an I/O error, an empty
\* buffer, or data
Chunks == {"error", "empty", "data"}

read_chunk(chunk) ==
    /\ upload.pc = "read"
    /\ upload' = CASE chunk = "error" -> Fails(UploadError("read", upload.part))
                   [] chunk = "empty" -> NextPart
                   [] OTHER -> [upload EXCEPT !.pc = "url"]
    /\ UNCHANGED <<parts, api>>

\* b2_get_upload_part_url and tokio::spawn (upload.rs:330-374)
spawn(ok) ==
    /\ upload.pc = "url"
    /\ IF ok
       THEN /\ upload' = NextPart
            /\ parts' = [parts EXCEPT ![upload.part] = PartAt("digest", 0, NoError)]
       ELSE /\ upload' = Fails(UploadError("url", upload.part))
            /\ parts' = parts
    /\ UNCHANGED api

\* the loop of the task of part p starts its next attempt, or is exhausted
\* (upload.rs:345, 369-370)
Attempt(p, attempt) ==
    IF attempt <= upload.retries
    THEN PartAt("upload", attempt, NoError)
    ELSE PartAt("failed", attempt, UploadError("RetriesExhausted", p))

\* the digest of the part is computed (upload.rs:337-343)
digest_part(p, ok) ==
    /\ parts[p].pc = "digest"
    /\ parts' = [parts EXCEPT ![p] =
          IF ok THEN Attempt(p, 1) ELSE PartAt("failed", 0, UploadError("digest", p))]
    /\ UNCHANGED <<upload, api>>

\* what b2_upload_part answers: Ok, 503 Service Unavailable, another error
Answers == {"Ok", "503", "Err"}

\* b2_upload_part in the task of part p (upload.rs:348-366)
b2_upload_part(p, answer) ==
    /\ parts[p].pc = "upload"
    /\ parts' = [parts EXCEPT ![p] =
          CASE answer = "Ok" -> PartAt("ok", @.attempt, NoError)
            [] answer = "503" -> PartAt("reurl", @.attempt, NoError)
            [] OTHER -> PartAt("failed", @.attempt, UploadError("b2_upload_part", p))]
    /\ UNCHANGED <<upload, api>>

\* after a 503 the task sleeps and gets a new upload url (upload.rs:361-363)
b2_get_upload_part_url(p, ok) ==
    /\ parts[p].pc = "reurl"
    /\ parts' = [parts EXCEPT ![p] =
          IF ok THEN Attempt(p, @.attempt + 1)
          ELSE PartAt("failed", @.attempt, UploadError("b2_get_upload_part_url", p))]
    /\ UNCHANGED <<upload, api>>

\* try_join_all(handles) (upload.rs:408): Err with the error of a task that
\* has failed, Ok once every task has succeeded
try_join_all ==
    /\ upload.pc = "join"
    /\ \/ \E p \in Parts :
            /\ parts[p].pc = "failed"
            /\ upload' = Fails(parts[p].error)
       \/ /\ \A p \in Parts : parts[p].pc \in {"unspawned", "ok"}
          /\ upload' = [upload EXCEPT !.pc = "finish"]
    /\ UNCHANGED <<parts, api>>

\* b2_finish_large_file (upload.rs:414, 576-579)
b2_finish_large_file(ok) ==
    /\ upload.pc = "finish"
    /\ api' = Append(api, ApiCall("b2_finish_large_file", ok))
    /\ upload' = IF ok
                 THEN [upload EXCEPT !.pc = "done", !.returned = ReturnedOk]
                 ELSE Fails(UploadError("finish", 0))
    /\ UNCHANGED parts

\* A mutant of b2_cancel_large_file: the error of a failed cancel is
\* returned in place of the error that led to it.
b2_cancel_large_file_returned(ok) ==
    /\ upload.pc = "cancel"
    /\ api' = Append(api, ApiCall("b2_cancel_large_file", ok))
    /\ upload' = [upload EXCEPT !.pc = "done",
          !.returned = ReturnedErr(IF ok THEN upload.error ELSE UploadError("cancel", 0))]
    /\ UNCHANGED parts

\* b2_cancel_large_file, its result dropped, and Err(error) (upload.rs:580-586)
b2_cancel_large_file(ok) ==
    /\ upload.pc = "cancel"
    /\ api' = Append(api, ApiCall("b2_cancel_large_file", ok))
    /\ upload' = [upload EXCEPT !.pc = "done", !.returned = ReturnedErr(upload.error)]
    /\ UNCHANGED parts

\* A call for a file of any number of parts, with any configuration of the
\* uploads
UploadInit ==
    /\ EchoRest
    /\ BucketRest
    /\ RetryRest
    /\ RegistryRest
    /\ ShelfRest
    /\ LockRest
    /\ PageRest
    /\ AuthRest
    /\ DurationRest
    /\ \E n \in Parts, r \in 0 .. MaxUploadRetries, c \in 1 .. MaxConcurrency :
          upload = [pc |-> "start", part |-> 0, permit |-> FALSE, error |-> NoError,
                    returned |-> Running, nparts |-> n, retries |-> r,
                    concurrency |-> c]
    /\ parts = [p \in Parts |-> Unspawned]
    /\ api = <<>>

UploadNext ==
    \/ \E ok \in BOOLEAN : b2_start_large_file(ok) /\ UNCHANGED besidesUpload
    \/ acquire_owned /\ UNCHANGED besidesUpload
    \/ \E chunk \in Chunks : read_chunk(chunk) /\ UNCHANGED besidesUpload
    \/ \E ok \in BOOLEAN : spawn(ok) /\ UNCHANGED besidesUpload
    \/ \E p \in Parts, ok \in BOOLEAN : digest_part(p, ok) /\ UNCHANGED besidesUpload
    \/ \E p \in Parts, answer \in Answers :
          b2_upload_part(p, answer) /\ UNCHANGED besidesUpload
    \/ \E p \in Parts, ok \in BOOLEAN :
          b2_get_upload_part_url(p, ok) /\ UNCHANGED besidesUpload
    \/ try_join_all /\ UNCHANGED besidesUpload
    \/ \E ok \in BOOLEAN : b2_finish_large_file(ok) /\ UNCHANGED besidesUpload
    \/ \E ok \in BOOLEAN : b2_cancel_large_file(ok) /\ UNCHANGED besidesUpload

UploadSpec == UploadInit /\ [][UploadNext]_vars

\* ---------------------------------------------------------- SharedDuration
\* src/api-client/src/timeout.rs.  The clones of one SharedDuration share one
\* AtomicDuration through the Arc; every thread holds a clone and calls get
\* and set.  Each atomic load and store is one step, so the steps of two
\* calls interleave as the threads run.

besidesDuration == <<echoVars, bucketVars, retryVars, registryVars, shelfVars, lockVars,
                     pageVars, authVars, uploadVars>>

ThreadIds == 1 .. NThreads

\* std::time::Duration, as whole seconds and sub-second nanoseconds
NanosPerSec == MaxNanos + 1
DurationOf(secs, subsec) == [secs |-> secs, nanos |-> subsec]
Durations == {DurationOf(secs, subsec) : secs \in 0 .. MaxSecs, subsec \in 0 .. MaxNanos}

\* Duration::new carries whole seconds out of the nanoseconds
DurationNew(secs, subsec) ==
    DurationOf(secs + subsec \div NanosPerSec, subsec % NanosPerSec)

\* a thread: where it is, the argument of its set or the seconds its get has
\* loaded, and what its last get returned
ThreadAt(pc, duration, returned) == [pc |-> pc, duration |-> duration, returned |-> returned]
NotReturned == [ok |-> FALSE, secs |-> 0, nanos |-> 0]
ReturnedDuration(d) == [ok |-> TRUE, secs |-> d.secs, nanos |-> d.nanos]

\* SharedDuration::set(timeout) up to the store of the seconds
\* (timeout.rs:59-61, 24-26)
set_seconds(t, timeout) ==
    /\ threads[t].pc = "idle"
    /\ seconds' = timeout.secs
    /\ written' = written \cup {timeout}
    /\ threads' = [threads EXCEPT ![t] = ThreadAt("set", timeout, @.returned)]
    /\ UNCHANGED nanos

\* the store of the nanoseconds ends set (timeout.rs:27)
set_nanos(t) ==
    /\ threads[t].pc = "set"
    /\ nanos' = threads[t].duration.nanos
    /\ threads' = [threads EXCEPT ![t] = ThreadAt("idle", DurationOf(0, 0), @.returned)]
    /\ UNCHANGED <<seconds, written>>

\* SharedDuration::get up to the load of the seconds (timeout.rs:54-56, 31)
get_seconds(t) ==
    /\ threads[t].pc = "idle"
    /\ threads' = [threads EXCEPT ![t] = ThreadAt("get", DurationOf(seconds, 0), @.returned)]
    /\ UNCHANGED <<seconds, nanos, written>>

\* the load of the nanoseconds and Duration::new end get (timeout.rs:32-33)
get_nanos(t) ==
    /\ threads[t].pc = "get"
    /\ threads' = [threads EXCEPT ![t] =
          ThreadAt("idle", DurationOf(0, 0),
                   ReturnedDuration(DurationNew(threads[t].duration.secs, nanos)))]
    /\ UNCHANGED <<seconds, nanos, written>>

\* SharedDuration::new(timeout), cloned into every thread
DurationInit ==
    /\ EchoRest
    /\ BucketRest
    /\ RetryRest
    /\ RegistryRest
    /\ ShelfRest
    /\ LockRest
    /\ PageRest
    /\ AuthRest
    /\ UploadRest
    /\ \E timeout \in Durations :
          /\ seconds = timeout.secs
          /\ nanos = timeout.nanos
          /\ written = {timeout}
    /\ threads = [t \in ThreadIds |-> ThreadAt("idle", DurationOf(0, 0), NotReturned)]

DurationNext ==
    \/ \E t \in ThreadIds, timeout \in Durations :
          set_seconds(t, timeout) /\ UNCHANGED besidesDuration
    \/ \E t \in ThreadIds : set_nanos(t) /\ UNCHANGED besidesDuration
    \/ \E t \in ThreadIds : get_seconds(t) /\ UNCHANGED besidesDuration
    \/ \E t \in ThreadIds : get_nanos(t) /\ UNCHANGED besidesDuration

DurationSpec == DurationInit /\ [][DurationNext]_vars

\* ------------------------------------------------- reading a step
\* The step hands a new Handle h to a call: Request::handle returned h.
Joined(h) == CopiesIn(h, handles') = CopiesIn(h, handles) + 1
SomeJoined == \E h \in BagToSet(handles') : Joined(h)
\* The step is the store of fetch k by the wrapper of Cached::get.
Stored(k) == fetch[k].pc = "running" /\ fetch'[k].pc = "publish"
\* The fetches whose task exists and has not sent yet, per request.
Live(r) == {k \in Fetches : fetch[k].req = r /\ fetch[k].pc \in {"running", "publish"}}
\* The validity test as the specification words it: expires is None or
\* expires >= now.
StatedValid ==
    cache.tag = "Cached" /\ (~cache.expires.ok \/ cache.expires.v >= now)
\* Every awaited handle can only resolve to the value of the fetch it is
\* subscribed to, and has it at hand once that fetch has sent.
HandlesResolve ==
    \A h \in BagToSet(handles) :
        /\ fetch[h.ch].pc \in {"running", "publish"} => recv(h) = Pending
        /\ fetch[h.ch].pc = "done" => recv(h) = Ok(h.ch)

\* ------------------------------------------------------------------- C1
\* C1: single-flight on Cached.  Among the get calls issued with no store
\* and no clear in between, the factory is invoked at most once; the one
\* call that invokes it is the one that moves the state to Inflight, every
\* other such call joins that same fetch without invoking anything, and
\* whatever a call returns after awaiting is the value of the fetch it
\* joined (the unwrap never panics).
C1_SingleFlight ==
    /\ [](Cardinality(epoch) <= 1)
    /\ [](HandlesResolve /\ last.op # "panic"
          /\ (last.op = "recv" => last.ret = Ok(last.ch)))
    /\ [][\A h \in BagToSet(handles') : Joined(h) =>
             IF epoch = {}
             THEN /\ h.started /\ invoked' = invoked + 1 /\ h.ch = invoked'
                  /\ cache.tag # "Inflight" /\ cache' = Inflight(fetch'[h.ch].req)
                  /\ epoch' = {h.ch}
             ELSE /\ ~h.started /\ invoked' = invoked /\ h.ch \in epoch
                  /\ UNCHANGED <<cache, fetch, epoch>>]_vars

\* Two calls await the same fetch, one of them its initiator, and the fetch
\* has sent its value to both.
C1_Witness ==
    \E h1, h2 \in BagToSet(handles) :
        /\ h1.started /\ ~h2.started /\ h1.ch = h2.ch
        /\ recv(h1) = Ok(h1.ch) /\ recv(h2) = Ok(h1.ch)
        /\ invoked = 1

\* ------------------------------------------------------------------- C2
\* C2: while the marker of a Request upgrades, handle(f) invokes no factory
\* and spawns nothing, it subscribes to the fetch the marker names; so at
\* most one execution per Request is in flight, the one the marker names.
C2_JoinNeverSpawns ==
    /\ [](\A r \in Requests : Cardinality(Live(r)) <= 1 /\ Live(r) \subseteq {inflight[r]})
    /\ [][\A h \in BagToSet(handles') : Joined(h) =>
             LET r == fetch'[h.ch].req IN
             Live(r) # {} =>
                 /\ h.ch \in Live(r) /\ ~h.started
                 /\ invoked' = invoked /\ fetch' = fetch /\ inflight' = inflight]_vars

\* A second fetch cycle of the same Request is in flight and a call that did
\* not start it awaits it.
C2_Witness ==
    \E h \in BagToSet(handles) :
        /\ ~h.started /\ h.ch = 2 /\ fetch[2].pc = "running" /\ fetch[2].req = 0
        /\ fetch[1].req = 0

\* ------------------------------------------------------------------- C3
\* C3: every handle given out for an execution that sends its result
\* resolves to Ok(v) with the v of that execution: a handle is subscribed
\* before the send (position 0 of an empty channel), has the message once
\* the fetch is done, and a call that returned Err awaited a fetch that
\* died without sending.
C3_SameResult ==
    /\ HandlesResolve
    /\ \A h \in BagToSet(handles) :
           fetch[h.ch].pc # "dead" => h.pos = 0 /\ recv(h) \in {Pending, Ok(h.ch)}
    /\ last.op = "recv" => (last.ret = Ok(last.ch) \/ fetch[last.ch].pc = "dead")

\* The fetch has sent, its initiator has its result and a joiner still has
\* the message at hand.
C3_Witness ==
    /\ last = Returned("recv", Ok(1), 1)
    /\ \E h \in BagToSet(handles) : ~h.started /\ h.ch = 1 /\ recv(h) = Ok(1)

\* ------------------------------------------------------------------- C4
\* C4: fast path.  While the state is Cached with expires None or >= now, no
\* call is handed a Handle (get does not await), no factory is invoked, and
\* a get returns the cached value leaving cache, requests and tasks as they
\* were.
C4_FastPath ==
    [][StatedValid =>
          /\ ~SomeJoined
          /\ invoked' = invoked
          /\ last'.op = "get" =>
                /\ last'.ret = Some(cache.value)
                /\ UNCHANGED <<cache, inflight, fetch, handles, epoch>>]_vars

\* A get has just returned a fetched value at the very instant it expires.
C4_Witness ==
    /\ last.op = "get" /\ cache.tag = "Cached" /\ cache.value = 1
    /\ last.ret = Some(1) /\ cache.expires = Some(now) /\ now > 0

C6_Original ==
    [][afterClear' = "used" /\ afterClear \in {"clean", "landed"} =>
          invoked' = invoked + 1]_vars

\* C6, amended: the first get after a clear() starts a new execution (it
\* invokes its factory, is handed the Handle of the new fetch and sets the
\* state to Inflight of a new Request) whenever no fetch has written its
\* value into the cache between the clear and the get, be an older fetch
\* still in flight or not; a clear leaves the state Empty until then.
C6_ClearThenRefetch ==
    /\ [](afterClear = "clean" => cache.tag = "Empty")
    /\ [][afterClear = "clean" /\ afterClear' = "used" =>
            /\ invoked' = invoked + 1
            /\ last'.op # "get"
            /\ fetch'[invoked'].pc = "running" /\ fetch'[invoked'].wrapped
            /\ cache'.tag = "Inflight" /\ cache'.req = fetch'[invoked'].req
            /\ \E h \in BagToSet(handles') : Joined(h) /\ h.started /\ h.ch = invoked'
            /\ \A k \in Fetches : k # invoked' => fetch'[k] = fetch[k]]_vars

\* Fetch 1 was in flight at the clear and still is; the get after the clear
\* has started fetch 2.
C6_Witness ==
    /\ fetch[1].pc = "running" /\ fetch[2].pc = "running"
    /\ cache.tag = "Inflight" /\ cache.req = fetch[2].req /\ afterClear = "used"
    /\ \E h \in BagToSet(handles) : h.ch = 2 /\ h.started

\* ------------------------------------------------------------------- C7
\* C7: map_cached changes nothing (cache, requests, tasks, handles, factory
\* count) and returns Some(value) exactly when the state is Cached with
\* expires None or >= now, None in every other state.
C7_MapCached ==
    [][last'.op = "map_cached" =>
          /\ UNCHANGED <<cache, inflight, fetch, invoked, handles, epoch, now>>
          /\ last'.ret = IF StatedValid THEN Some(cache.value) ELSE None]_vars

\* map_cached has just returned None on a fetched value that has expired.
C7_Witness ==
    /\ last = Returned("map_cached", None, 0)
    /\ cache.tag = "Cached" /\ cache.value = 1 /\ cache.expires.ok /\ cache.expires.v < now

\* ------------------------------------------------------------------- C8
\* C8: cancellation independence.  Cancelling a call (the initiator or a
\* joiner) changes neither the cache, nor a marker, nor the stage or the
\* messages of any fetch whose channel lives; no fetch ever ends without
\* sending; a fetch whose initiator was cancelled still stores its value in
\* the cache and goes on to send it; and the handles that remain resolve to
\* its value.
C8_CancellationIndependence ==
    /\ [](HandlesResolve /\ \A k \in Fetches : fetch[k].pc # "dead")
    /\ [][last'.op = "cancel" =>
            /\ UNCHANGED <<cache, inflight, invoked>>
            /\ \A k \in Fetches :
                  /\ fetch'[k].pc = fetch[k].pc
                  /\ Receivers(k)' > 0 => fetch'[k].msgs = fetch[k].msgs
            /\ \A h \in BagToSet(handles') : recv(h)' = recv(h)]_vars
    /\ [][\A k \in Fetches : Stored(k) /\ fetch[k].orphan =>
            cache'.tag = "Cached" /\ cache'.value = k]_vars
    /\ \A k \in Fetches :
          (fetch[k].pc = "running" /\ fetch[k].orphan) ~> (fetch[k].pc = "done")

\* The call that started the fetch was cancelled; the fetch has stored its
\* value and sent it, and a joiner has it at hand.
C8_Witness ==
    \E h \in BagToSet(handles) :
        /\ ~h.started /\ fetch[h.ch].orphan /\ fetch[h.ch].pc = "done"
        /\ recv(h) = Ok(h.ch)
        /\ cache.tag = "Cached" /\ cache.value = h.ch

\* ------------------------------------------------------------------- C9
\* C9: clear() sets the state to Empty and touches no fetch, marker or
\* handle; the store of a fetch writes Cached{its value, now + duration}
\* whatever the state is then (Empty after a clear included); and the
\* handles that joined keep resolving to that fetch's value.
C9_ClearWhileInflight ==
    /\ []HandlesResolve
    /\ [][last'.op = "clear" =>
            cache' = Empty /\ UNCHANGED <<inflight, fetch, handles, invoked>>]_vars
    /\ [][\A k \in Fetches : Stored(k) =>
            /\ cache' = Cached(k, IF config.expiration.ok
                                  THEN Some(now + config.expiration.v) ELSE None)
            /\ UNCHANGED <<inflight, handles, invoked>>]_vars

\* A fetch was in flight at a clear; it has since written its value over the
\* Empty state and sent it to a call that had joined before the clear.
C9_Witness ==
    /\ afterClear = "landed" /\ cache.tag = "Cached" /\ cache.value = 1
    /\ fetch[1].pc = "done" /\ invoked = 1
    /\ \E h \in BagToSet(handles) : h.ch = 1 /\ recv(h) = Ok(1)

C11_DeadFetchErr ==
    /\ [](\A h \in BagToSet(handles) : fetch[h.ch].pc = "dead" => recv(h) = Err)
    /\ [][\A k \in Fetches :
            fetch[k].pc = "dead" /\ last'.ch = k /\ last'.op \in {"recv", "panic"} =>
                last' = Returned("recv", Err, k)]_vars
    /\ \A k \in Fetches : (fetch[k].pc = "dead") ~> (Receivers(k) = 0)

\* A fetch joined by a second call has died and one of the two calls has
\* returned Err while the other still holds its handle.
C11_Witness ==
    /\ last.op = "recv" /\ last.ret = Err
    /\ fetch[last.ch].pc = "dead"
    /\ Receivers(last.ch) = 1

\* ------------------------------------------------------------------ C12
\* C12: a marker whose sender is gone.  When the marker of the Request names
\* a fetch that died, the next handle(f) does not subscribe to that fetch:
\* it invokes f, spawns a new fetch on a new channel, points the marker at
\* it and returns a handle of the new channel, which resolves to the new
\* fetch's result.
C12_DeadMarkerRestarts ==
    /\ [][inflight[0] # 0 /\ fetch[inflight[0]].pc = "dead" /\ SomeJoined =>
            /\ invoked' = invoked + 1
            /\ inflight'[0] = invoked'
            /\ fetch'[invoked'].pc = "running" /\ fetch'[invoked'].req = 0
            /\ fetch'[invoked'].msgs = <<>>
            /\ \A h \in BagToSet(handles') :
                   Joined(h) => h.ch = invoked' /\ h.pos = 0 /\ h.started]_vars
    /\ [](\A h \in BagToSet(handles) :
            /\ fetch[h.ch].pc = "running" => recv(h) = Pending
            /\ fetch[h.ch].pc = "done" => recv(h) = Ok(h.ch))
    /\ [][last'.op = "recv" /\ fetch[last'.ch].pc = "done" =>
            last'.ret = Ok(last'.ch)]_vars

\* The first fetch died, a later handle call started the second one and has
\* received its result.
C12_Witness ==
    /\ fetch[1].pc = "dead" /\ invoked = 2
    /\ last = Returned("recv", Ok(2), 2)

\* ------------------------------------------------------------------ C17
\* C17: the coalescer's marker.  For every Request, the marker names a
\* fetch whose task still holds the sender exactly when a fetch spawned for
\* that Request is in flight, there is at most one such fetch and it is the
\* one the marker names.  The marker is set in the step that spawns the
\* task, and it is reset to None only by that task, in the step that sends
\* the result.
C17_MarkerInvariant ==
    /\ [](\A r \in Requests :
            /\ Cardinality(Live(r)) <= 1
            /\ (inflight[r] # 0 /\ fetch[inflight[r]].pc \in {"running", "publish"})
                   <=> Live(r) # {}
            /\ Live(r) # {} => inflight[r] \in Live(r))
    /\ [][\A k \in Fetches :
            /\ fetch[k].pc = "none" /\ fetch'[k].pc # "none" =>
                   fetch'[k].pc = "running" /\ inflight'[fetch'[k].req] = k
            /\ Len(fetch'[k].msgs) > Len(fetch[k].msgs) =>
                   inflight[fetch[k].req] = k /\ inflight'[fetch[k].req] = 0
            /\ fetch[k].pc # "done" /\ fetch'[k].pc = "done" =>
                   inflight[fetch[k].req] = k /\ inflight'[fetch[k].req] = 0]_vars
    /\ [][\A r \in Requests :
            inflight[r] # 0 /\ inflight'[r] = 0 => fetch'[inflight[r]].pc = "done"]_vars

\* The first fetch has sent and cleared the marker; the marker names the
\* second fetch, which is in flight with two calls subscribed.
C17_Witness ==
    /\ fetch[1].pc = "done" /\ fetch[2].pc = "running"
    /\ inflight[0] = 2 /\ Receivers(2) = 2

\* ------------------------------------------------------------------ C18
\* A Cached entry whose expires is in the past.
Stale == cache.tag = "Cached" /\ cache.expires.ok /\ cache.expires.v < now

\* C18 as stated: a stale entry stays in the state until a fetch completes
\* and writes its value (or clear() is called).
C18_Original ==
    [][Stale /\ cache' # cache =>
          (\E k \in Fetches : Stored(k)) \/ last'.op = "clear"]_vars

\* C18, amended: a stale entry is absent for readers and is not mutated by
\* time passing or by map_cached (which returns None); get never returns
\* it on the fast path, and the get that finds it supersedes it at once
\* with Inflight of the new request it starts.  Only that get, the store of
\* a fetch and clear() change a stale entry.
C18_LazyInvalidation ==
    /\ [][Stale =>
            /\ last'.op # "get"
            /\ last'.op = "map_cached" => last'.ret = None /\ cache' = cache
            /\ now' # now => cache' = cache
            /\ SomeJoined =>
                  /\ invoked' = invoked + 1
                  /\ cache' = Inflight(fetch'[invoked'].req)
            /\ cache' # cache =>
                  \/ SomeJoined
                  \/ \E k \in Fetches : Stored(k)
                  \/ last'.op = "clear"]_vars

\* A stale entry has been looked at by map_cached, which returned None, and
\* it is still in the state.
C18_Witness ==
    /\ Stale
    /\ last = Returned("map_cached", None, 0)
    /\ invoked = 1 /\ cache.value = 1

\* ------------------------------------------------------------------ C20
\* C20: one message per channel.  A channel never holds more than one
\* message, a message is sent only by the step in which the task finishes,
\* a fetch that starts gets a channel that nothing was sent on and that no
\* earlier handle is subscribed to, and no handle resolves to Lagged.
C20_OneMessage ==
    /\ [](\A k \in Fetches : Len(fetch[k].msgs) <= Capacity)
    /\ [](\A h \in BagToSet(handles) : recv(h) # Lagged)
    /\ [](last.ret # Lagged)
    /\ [][\A k \in Fetches :
            /\ Len(fetch'[k].msgs) > Len(fetch[k].msgs) =>
                  fetch[k].pc # "done" /\ fetch'[k].pc = "done"
            /\ fetch[k].pc = "none" /\ fetch'[k].pc # "none" =>
                  /\ fetch'[k].msgs = <<>>
                  /\ \A h \in BagToSet(handles) : h.ch # k]_vars

\* Two calls were subscribed to a fetch; it has sent its one message and
\* one call has received it while the other has yet to.
C20_Witness ==
    \E k \in Fetches :
        /\ Len(fetch[k].msgs) = 1
        /\ last = Returned("recv", Ok(k), k)
        /\ Receivers(k) = 1

\* ------------------------------------------------------------------ C13
\* The step is the cache.get(..) of the get_bucket call c.
GbGot(c) == c.pc = "get" /\ CopiesIn(c, gb') = CopiesIn(c, gb) - 1
\* The get_bucket call c found a valid Err when it inspected the entry.
SawErr(c) == c.saw.ok /\ c.saw.v \in failed
\* The get_bucket call c found a valid Ok when it inspected the entry.
SawOk(c) == c.saw.ok /\ c.saw.v \notin failed

\* C13 as stated: a call that found a valid Err starts or joins a fetch at
\* its get, and a call that found a valid Ok returns that bucket from the
\* cache without a request.  Expiry between the inspection and the get is
\* not held against the claim: only calls made before the clock has moved
\* are looked at.
C13_Original ==
    [][\A c \in BagToSet(gb) :
          /\ GbGot(c) /\ SawErr(c) /\ now = 0 => SomeJoined
          /\ GbGot(c) /\ SawOk(c) /\ now = 0 =>
                last' = Returned("get", c.saw, 0) /\ invoked' = invoked]_vars

\* C13, amended: a call clears the entry exactly when its inspection found
\* a valid Err, and it does so before its get; from that clear to the get
\* the entry neither holds that Err nor the request that produced it, so
\* the get does not return that Err and does not join its fetch.  At its
\* get, whatever the call had found, a valid Ok entry is returned with no
\* request issued and no handle taken, and an entry that is not valid makes
\* the call start or join a fetch.
C13_GetBucket ==
    /\ [](\A c \in BagToSet(gb) :
            /\ c.pc = "clear" => SawErr(c)
            /\ c.pc = "get" /\ SawErr(c) =>
                  /\ ~(cache.tag = "Cached" /\ cache.value = c.saw.v)
                  /\ ~(cache.tag = "Inflight" /\ cache.req = fetch[c.saw.v].req))
    /\ [][\A c \in BagToSet(gb') :
            BagCardinality(gb') > BagCardinality(gb) /\ CopiesIn(c, gb') > CopiesIn(c, gb) =>
                /\ c.saw = (IF StatedValid THEN Some(cache.value) ELSE None)
                /\ c.pc = (IF StatedValid /\ cache.value \in failed THEN "clear" ELSE "get")]_vars
    /\ [][\A c \in BagToSet(gb) :
            /\ c.pc = "clear" /\ CopiesIn(c, gb') < CopiesIn(c, gb) =>
                  cache' = Empty /\ BagIn(GbCall("get", c.saw), gb')
            /\ GbGot(c) /\ SawErr(c) =>
                  /\ last'.op = "get" => last'.ret # c.saw
                  /\ \A h \in BagToSet(handles') : Joined(h) => h.ch # c.saw.v
            /\ GbGot(c) /\ StatedValid /\ cache.value \notin failed =>
                  /\ last' = Returned("get", Some(cache.value), 0)
                  /\ invoked' = invoked /\ ~SomeJoined
            /\ GbGot(c) /\ ~StatedValid => SomeJoined /\ last'.op # "get"]_vars

\* A call found the Err of the first fetch, cleared the entry and started
\* the second fetch at its get; that fetch is in flight.
C13_Witness ==
    /\ failed = {1} /\ afterClear = "used"
    /\ cache.tag = "Inflight" /\ cache.req = fetch[2].req
    /\ fetch[2].pc = "running"
    /\ gb = EmptyBag

\* ------------------------------------------------------------------ C14
\* C14: exponential backoff.  As long as no Retry-After header has set a
\* delay, every delay waited for is the previous one multiplied by
\* exponent, and a policy whose delay is at least 1 and whose exponent is
\* at least 2 retries one request at most max_delay times.
C14_Backoff ==
    (\A i \in 1..Len(slept) : ~slept[i].limited) =>
        /\ \A i \in 1..(Len(slept) - 1) :
               slept[i + 1].delay = slept[i].delay * policy.exponent
        /\ policy.delay >= 1 /\ policy.exponent >= 2 => Len(slept) <= policy.max_delay

\* ---------------------------------------------------------------- C15
\* What the bucket holds for the digest string.
Held(digest) == blobs[blob_path(digest)]

\* C15 (original and confirmed): put_blob(digest, data) uploads only when
\* digest is "sha256:" followed by the hex SHA-256 of data, and then the
\* path of the digest holds data; otherwise it returns DigestMismatch and
\* the storage is what it was.  blob_exists tells whether the path holds a
\* blob and get_blob returns exactly what it holds, neither changing the
\* storage; so what a successful put_blob stored is there, unchanged, up to
\* a delete_blob, which is the only call that takes a blob away, and after
\* delete_blob the path holds nothing.
C15_PutBlob ==
    [][LET d == call'.digest
           x == call'.data
           ret == call'.ret
       IN
       /\ call'.op = "put_blob" /\ d = [alg |-> "sha256", hex |-> Sha256Hex(x)] =>
            /\ ret.tag = "Ok"
            /\ blobs' = [blobs EXCEPT ![[alg |-> "sha256", name |-> d.hex]] = Some(x)]
       /\ call'.op = "put_blob" /\ d # [alg |-> "sha256", hex |-> Sha256Hex(x)] =>
            /\ ret.tag = "DigestMismatch"
            /\ blobs' = blobs
       /\ call'.op = "blob_exists" =>
            /\ ret.tag = "Ok" /\ ret.exists = Held(d).ok
            /\ blobs' = blobs
       /\ call'.op = "get_blob" =>
            /\ ret = IF Held(d).ok THEN Reply("Ok", Held(d).v, FALSE)
                     ELSE Reply("BlobNotFound", 0, FALSE)
            /\ blobs' = blobs
       /\ call'.op = "delete_blob" => ~blobs'[blob_path(d)].ok
       /\ \A p \in Paths :
            blobs[p].ok /\ blobs'[p] # blobs[p] =>
                call'.op = "delete_blob" /\ ~blobs'[p].ok
    ]_vars

\* A blob was stored by put_blob, and get_blob has just returned exactly its
\* data.
C15_Witness ==
    /\ call.op = "get_blob"
    /\ call.ret.tag = "Ok"
    /\ call.digest = computed(call.ret.data)
    /\ blobs[blob_path(call.digest)] = Some(call.ret.data)
    /\ \E p \in Paths : p # blob_path(call.digest) /\ blobs[p].ok

\* ---------------------------------------------------------------- C16
\* The buckets an ExpirationPolicy builds for an origin.
BucketsOf(cfg, origin) ==
    {daily(origin, cfg.days), weekly(origin, cfg.weeks), monthly(origin, cfg.months),
     yearly(origin, cfg.years)}

\* e is the earliest epoch of E in its period of bucket b, and the period
\* is at or after the horizon of b.
EarliestInside(b, e, E) ==
    /\ Ge(extract(b.kind, e), b.horizon)
    /\ \A f \in E : extract(b.kind, f) = extract(b.kind, e) => e <= f

\* C16 (original and confirmed): an application of the policy returns
\* exactly the inserted epochs that are not, for any of the daily, weekly,
\* monthly and yearly buckets, the earliest inserted epoch of a period at or
\* after the bucket's horizon.  So the result is a subset of the input, and
\* an epoch that is the earliest of its period inside a horizon survives
\* every application, day after day.
C16_Expired ==
    [][today' # today =>
        LET B == BucketsOf(policy_config, today) IN
        /\ removed' = {e \in epochs' : \A b \in B : ~EarliestInside(b, e, epochs')}
        /\ removed' \subseteq epochs'
        /\ epochs' \in {storage, storage \cup {today}}
        /\ storage' = epochs' \ removed'
        /\ \A e \in epochs' :
             (\E b \in B : EarliestInside(b, e, epochs')) => e \in storage'
    ]_vars

\* The origin has moved into the next year, the latest application removed
\* an epoch, and the storage keeps an epoch from before the daily horizon
\* beside a later one.
C16_Witness ==
    /\ today > NewYear + 1
    /\ removed # {}
    /\ \E e \in storage : e < (today - 1) - policy_config.days
    /\ \E e \in storage : e >= (today - 1) - policy_config.days
    /\ policy_config.days > 0

\* ---------------------------------------------------------------- C19
\* The locks task t holds.
HoldsCache(t) == held.cache = t
HoldsReq(t) == \E r \in Requests : held.req[r] = t
\* Task t is suspended at an await point, or the factory's future it polls
\* is executing.
Suspended(t) == task[t].pc \in {"await", "fut"}
\* Task t can take a step.
CanStep(t) ==
    IF t \in Callers THEN ENABLED CallerStep(t) ELSE ENABLED SpawnedStep(t - NCallers)

\* C19 (original and confirmed): no task holds the cache-state lock or a
\* coalescer lock while it is suspended at an await point or while the
\* factory's future runs.  The cache-state lock is held only through the
\* check, transition and subscribe section of get, the store of the fetched
\* value, and the bodies of clear and map_cached; a coalescer lock only for
\* the subscribe section of handle and for the clear-marker-and-send
\* section.  Whoever holds a lock can go on at once, or waits only for a
\* coalescer lock whose holder can: no section under a lock waits for a
\* fetch, so clear, map_cached and the fast path of get are never blocked
\* by a slow one.
C19_LockDiscipline ==
    /\ \A t \in Tasks : Suspended(t) => ~HoldsCache(t) /\ ~HoldsReq(t)
    /\ \A t \in Tasks :
         /\ HoldsCache(t) =>
              task[t].pc \in {"match", "handle", "subscribe", "transition",
                              "store", "clear", "map_cached"}
         /\ HoldsReq(t) => task[t].pc \in {"subscribe", "send"}
    /\ \A t \in Tasks :
         HoldsCache(t) \/ HoldsReq(t) =>
            \/ CanStep(t)
            \/ /\ task[t].pc = "handle"
               /\ held.req[task[t].req] # Free
               /\ CanStep(held.req[task[t].req])
    /\ \A c \in Callers :
         task[c].pc = "lock" /\ task[c].op # "get" /\ held.cache # Free =>
            ~Suspended(held.cache)

\* The future of a fetch is executing and a caller awaits its Handle, while
\* another caller is inside clear with the cache-state lock.
C19_Witness ==
    /\ \E k \in Fetches : task[Spawned(k)].pc = "fut"
    /\ \E c \in Callers : task[c].pc = "await"
    /\ \E c \in Callers : task[c].pc = "clear" /\ held.cache = c

\* ---------------------------------------------------------------- C21
\* C21 (original and confirmed): with no panic and no abort, whenever the
\* cache state is Inflight(req) the fetch of req has neither stored nor
\* sent and its marker still upgrades; a get that took the Inflight branch
\* finds a live sender when it subscribes; no Handle awaited by Cached::get
\* can resolve to an error, and the unwrap of Cached::get has not panicked.
C21_NoPanic ==
    /\ cache.tag = "Inflight" =>
          /\ fetch[cache.req].pc = "running"
          /\ fetch[cache.req].msgs = <<>>
          /\ inflight[cache.req] = cache.req
    /\ \A c \in Callers :
          task[c].pc \in {"handle", "subscribe"} /\ ~task[c].wrapped =>
              /\ inflight[task[c].req] # 0
              /\ fetch[inflight[task[c].req]].pc \in {"running", "publish"}
              /\ fetch[inflight[task[c].req]].msgs = <<>>
    /\ \A h \in BagToSet(handles) :
          /\ fetch[h.ch].pc # "dead"
          /\ fetch[h.ch].pc = "done" => h.pos < Len(fetch[h.ch].msgs)
          /\ Len(fetch[h.ch].msgs) - h.pos <= Capacity
    /\ last.op # "panic"
    /\ last.op = "recv" => last.ret.ok

\* A get that joined through the Inflight branch awaits a Handle whose
\* fetch has sent: the value is there for it.
C21_Witness ==
    \E c \in Callers :
        /\ task[c].pc = "await"
        /\ ~task[c].h.started
        /\ fetch[task[c].h.ch].pc = "done"
        /\ recv(task[c].h) = Ok(task[c].h.ch)

\* ---------------------------------------------------------------- C22
\* C22 (original and confirmed): a fetch that completes writes its value
\* whatever the cache state is then, Inflight of another fetch or the value
\* of another fetch included, with expires counted from that instant; and a
\* cached value is replaced by nothing but such a write.  So of two fetches
\* that overlap across a clear, the one that completes last leaves its
\* value, be it the older one.
C22_LastWriterWins ==
    [][/\ \A k \in Fetches :
            Stored(k) =>
                /\ cache'.tag = "Cached"
                /\ cache'.value = k
                /\ cache'.expires = IF config.expiration.ok
                                    THEN Some(now + config.expiration.v) ELSE None
       /\ cache'.tag = "Cached" /\ cache' # cache => \E k \in Fetches : Stored(k)
    ]_vars

\* Fetch 2 was started after a clear while fetch 1 was in flight; fetch 2
\* completed first and fetch 1 last: the cache holds the value of fetch 1.
C22_Witness ==
    /\ afterClear # "never"
    /\ fetch[1].pc = "publish"
    /\ fetch[2].pc \in {"publish", "done"}
    /\ fetch[2].wrapped
    /\ cache.tag = "Cached"
    /\ cache.value = 1
    /\ now > 0

\* ---------------------------------------------------------------- C23
\* The step is the cache.clear() of the get_bucket call c.
GbCleared(c) == c.pc = "clear" /\ CopiesIn(c, gb') < CopiesIn(c, gb)

\* C23: the clear() of get_bucket never discards a cached Ok that is still
\* valid and never resets the state while a fetch is in flight.
C23_Eviction ==
    [][\A c \in BagToSet(gb) :
          GbCleared(c) =>
              /\ ~(StatedValid /\ cache.value \notin failed)
              /\ cache.tag # "Inflight"]_vars

\* ---------------------------------------------------------------- C24
\* The step is the send of fetch k.
Sent(k) == fetch[k].pc # "done" /\ fetch'[k].pc = "done"

\* C24: after a fetch started through Cached::get has died, the cache does
\* not stay Inflight: the fetch that a later get starts stores its value as
\* Cached before it sends it, so the state is not Inflight once a result
\* has been sent to that get.
C24_Recovery ==
    [][\A k \in Fetches :
          Sent(k) /\ (\E d \in Fetches : fetch[d].pc = "dead") =>
              /\ fetch[k].pc = "publish"
              /\ cache'.tag # "Inflight" \/ cache'.req # fetch[k].req]_vars

\* ---------------------------------------------------------------- C25
\* The task that holds the lock task t is waiting for; Free when t waits
\* for no lock or the lock is free.
WaitsFor(t) ==
    IF task[t].pc \in {"lock", "lock_cache"} THEN held.cache
    ELSE IF task[t].pc = "handle" THEN held.req[task[t].req]
    ELSE IF task[t].pc = "lock_req" THEN held.req[fetch[t - NCallers].req]
    ELSE Free

\* The task reached from t by following WaitsFor n times; Free when the
\* chain ends before.
RECURSIVE WaitChain(_, _)
WaitChain(t, n) ==
    IF n = 0 \/ t = Free THEN t ELSE WaitChain(WaitsFor(t), n - 1)

\* C25 (original and confirmed): a task that holds a coalescer lock holds
\* the cache-state lock only inside Cached::get, having taken it first, and
\* never waits for it; the wrapper and the spawned task hold one lock at a
\* time and wait for none while holding one; clear and map_cached hold the
\* cache-state lock only.  No tasks wait for each other's locks in a cycle,
\* and the task at the end of every chain of waiting can take a step.
C25_DeadlockFree ==
    /\ \A t \in Tasks :
         /\ HoldsReq(t) => WaitsFor(t) = Free /\ task[t].pc \notin {"lock", "lock_cache"}
         /\ HoldsReq(t) /\ HoldsCache(t) =>
               t \in Callers /\ task[t].op = "get" /\ task[t].pc = "subscribe"
         /\ t \notin Callers /\ (HoldsCache(t) \/ HoldsReq(t)) =>
               task[t].pc \in {"store", "send"}
         /\ t \in Callers /\ task[t].op # "get" => ~HoldsReq(t)
         /\ HoldsCache(t) /\ WaitsFor(t) # Free =>
               t \in Callers /\ task[t].pc = "handle"
    /\ \A t \in Tasks : WaitChain(t, NCallers + MaxFetch + 1) = Free
    /\ \A t \in Tasks :
         WaitsFor(t) # Free =>
            \E n \in 1..(NCallers + MaxFetch) :
                /\ WaitChain(t, n) # Free
                /\ WaitsFor(WaitChain(t, n)) = Free
                /\ CanStep(WaitChain(t, n))

\* A caller inside get holds the cache-state lock and, nested in it, the
\* lock of the coalescer it has just made, while the task of an older fetch
\* waits for the cache-state lock to store its value.
C25_Witness ==
    \E c \in Callers, k \in Fetches :
        /\ task[c].pc = "subscribe" /\ task[c].wrapped
        /\ held.cache = c /\ held.req[task[c].req] = c
        /\ task[Spawned(k)].pc = "lock_cache" /\ WaitsFor(Spawned(k)) = c

\* ---------------------------------------------------------------- C26
\* the items of the pages that answer the given requests, page after page
RECURSIVE PagesOf(_)
PagesOf(reqs) ==
    IF reqs = <<>> THEN <<>> ELSE items(Head(reqs)) \o PagesOf(Tail(reqs))

\* the stream has yielded an Err
Failed == yielded # <<>> /\ ~yielded[Len(yielded)].ok

\* the requests that were answered with a page
Answered ==
    IF (state.tag = "Requesting" /\ state.started) \/ Failed
    THEN SubSeq(issued, 1, Len(issued) - 1)
    ELSE issued

\* the items the stream has yielded, in order
YieldedItems ==
    LET oks == SelectSeq(yielded, LAMBDA y : y.ok)
    IN  [i \in 1 .. Len(oks) |-> oks[i].v]

\* what was yielded, followed by what is buffered, is the items of the
\* answered pages in the order of the responses, each item once
InResponseOrder == YieldedItems \o state.items = PagesOf(Answered)

\* a request is issued only when every item of the pages received so far has
\* been yielded, and it is the first request or the one that next() gave for
\* the page received last
IssuedAfterDrain ==
    issued' # issued =>
        /\ YieldedItems = PagesOf(issued)
        /\ IF issued = <<>>
           THEN issued' = <<1>>
           ELSE /\ next(issued[Len(issued)]).ok
                /\ issued' = Append(issued, next(issued[Len(issued)]).v)

\* C26: a Paginated stream yields the items of the first page, then of the
\* second page, and so on, in response order and each item exactly once; the
\* request for the next page is issued only after every buffered item of the
\* current page has been yielded, and it is the request that the paginator's
\* next() returned for the page just received.
C26_PageOrder == []InResponseOrder /\ [][IssuedAfterDrain]_vars

\* three pages were requested one after the other and items of the third
\* page have been yielded after those of the first and the second
C26_Witness ==
    /\ issued = <<1, 2, 3>>
    /\ state.tag = "Buffered"
    /\ Len(yielded) = 3 * MaxItems

\* ---------------------------------------------------------------- C27
\* once the stream has ended, a poll returns None, issues no request and
\* yields nothing
DoneAbsorbs ==
    ended =>
        /\ ended'
        /\ state'.tag = "Done"
        /\ polled' = ReadyNone
        /\ issued' = issued
        /\ yielded' = yielded

\* with no request left no request is issued, and the poll that finds the
\* last page drained returns None
NoneEnds ==
    ~request.ok =>
        /\ issued' = issued
        /\ ~request'.ok
        /\ state.tag = "Query" => polled' = ReadyNone /\ ended'

\* the failure of the future of a page is yielded as an Err and ends the
\* stream
ErrEnds ==
    polled'.tag = "Ready(Some(Err))" =>
        /\ state.tag = "Requesting"
        /\ yielded' = Append(yielded, Lagged)
        /\ state'.tag = "Done"
        /\ ended'

\* the Errs among what the stream has yielded
YieldedErrs == SelectSeq(yielded, LAMBDA y : ~y.ok)

\* at most one Err is ever yielded, it is the last thing yielded and the
\* stream has ended with it
OneErr ==
    /\ Len(YieldedErrs) <= 1
    /\ YieldedErrs # <<>> => ~yielded[Len(yielded)].ok /\ ended /\ state.tag = "Done"

\* C27: Done is absorbing for a Paginated stream: once the paginator's next()
\* has returned None and the last page's items are drained, the stream
\* returns None without issuing another request; a failed page request
\* (transport error or non-success status) yields exactly one Err and ends
\* the stream; and every poll after the stream has ended returns None with no
\* further request.
C27_DoneAbsorbs == []OneErr /\ [][DoneAbsorbs /\ NoneEnds /\ ErrEnds]_vars

\* the second page failed, the stream yielded the Err after the items of the
\* first page, and a later poll has returned None
C27_Witness ==
    /\ issued = <<1, 2>>
    /\ Len(yielded) = MaxItems + 1
    /\ ~yielded[Len(yielded)].ok
    /\ polled = ReadyNone
    /\ request.ok

\* ---------------------------------------------------------------- C28
\* what operation o has done and returned agrees with the rule of auth!
AtMostTwice(o) ==
    LET a == attempts[o]
    IN  /\ Len(a.tried) <= 2
        /\ Len(a.refreshed) <= 1
        /\ Len(a.tried) = 2 =>
              /\ a.tried[1].kind = "ExpiredAuthToken"
              /\ a.refreshed = <<TRUE>>
        /\ a.refreshed # <<>> => a.tried[1].kind = "ExpiredAuthToken"
        /\ a.pc = "done" =>
              /\ a.tried # <<>>
              /\ a.result = a.tried[Len(a.tried)]
              /\ a.refreshed = <<TRUE>> => Len(a.tried) = 2

\* C28: an operation wrapped by the auth! macro is attempted at most twice:
\* the second attempt happens only when the first returned a B2 error of kind
\* ExpiredAuthToken and refresh_authorization then succeeded; if the refresh
\* fails, or the first error is of any other kind, the first error is
\* returned and no retry is made; the result of the second attempt is
\* returned as is, without a further refresh.
C28_AtMostTwice == \A o \in WrappedOps : AtMostTwice(o)

\* an operation whose second attempt ended with ExpiredAuthToken again has
\* returned that error, and another one has returned its first error after a
\* failed refresh
C28_Witness ==
    \E o, q \in WrappedOps :
        /\ attempts[o].pc = "done"
        /\ Len(attempts[o].tried) = 2
        /\ attempts[o].result = MethodResult("ExpiredAuthToken", 2)
        /\ attempts[q].pc = "done"
        /\ attempts[q].refreshed = <<FALSE>>

\* ---------------------------------------------------------------- C29
\* the large file was started
Started == api # <<>> /\ api[1] = ApiCall("b2_start_large_file", TRUE)

\* how many times the method was called
CallsOf(name) == Cardinality({i \in 1 .. Len(api) : api[i].name = name})

\* the error is one that arose in this call: in the caller where it stopped,
\* in finish, or in the task of a part
Arose(error) ==
    CASE error.kind \in {"read", "url"} -> error.part = upload.part
      [] error.kind = "finish" ->
            \E i \in 1 .. Len(api) : api[i] = ApiCall("b2_finish_large_file", FALSE)
      [] OTHER ->
            /\ error.part \in Parts
            /\ parts[error.part].pc = "failed"
            /\ parts[error.part].error = error

\* the call ended with finish: nothing was cancelled
EndedFinished ==
    /\ upload.returned = ReturnedOk
    /\ api = <<ApiCall("b2_start_large_file", TRUE), ApiCall("b2_finish_large_file", TRUE)>>

\* the call ended with cancel: cancel was the last call and the only cancel,
\* no finish succeeded, and the error returned is the one that arose
EndedCancelled ==
    /\ upload.returned.tag = "Err"
    /\ upload.returned.error = upload.error
    /\ Arose(upload.error)
    /\ api[Len(api)].name = "b2_cancel_large_file"
    /\ CallsOf("b2_cancel_large_file") = 1
    /\ \A i \in 1 .. Len(api) : api[i] # ApiCall("b2_finish_large_file", TRUE)

C30_Whole ==
    \A t \in ThreadIds :
        threads[t].returned.ok =>
            DurationOf(threads[t].returned.secs, threads[t].returned.nanos) \in written

====
